---------------------------- MODULE Spec2Model ----------------------------
(***************************************************************************)
(* Model of the packing engine of optimizer-core (Optimizer::new,          *)
(* Optimizer::optimize and everything optimize calls).                     *)
(*                                                                         *)
(* Numbers.  The code computes in f64; the model computes in exact         *)
(* integers.  One model length unit is 0.5 mm, so that the code's          *)
(* tolerances are integers: 0.5 mm is 1 unit, 1.0 mm is 2 units, 10 mm is  *)
(* 20 units, 50 mm is 100 units.  Areas are in units^2 (0.25 mm^2).        *)
(* Placement scores are kept as 20 times the code's score, as an integer   *)
(* part plus a proper fraction, which keeps every comparison exact.        *)
(* Floating-point rounding is not modelled.                                *)
(***************************************************************************)
EXTENDS Integers, Sequences, FiniteSets, TLC

VARIABLES
    request,          \* Optimizer.request (the request handed to Optimizer::new)
    pc,               \* position in new / optimize
    expanded_items,   \* optimize: expanded_items
    si,               \* optimize: index of the strategy being run (1..6)
    ii,               \* best_fit_decreasing_optimize: index of the next item
    layouts,          \* the layouts being built (BFD: layouts, reduce: current)
    best_layouts,     \* optimize: best_layouts (Option as <<>> or <<v>>), later
                      \* try_add_optional_items: best_layouts
    best_panel_count, \* optimize: best_panel_count
    best_waste,       \* optimize: best_waste
    best_summary,     \* try_add_optional_items: best_summary
    items_used,       \* try_add_optional_items: items_used
    result,           \* the value optimize / new returned
    hist              \* history: what the passes did (read by the properties only)

vars == <<request, pc, expanded_items, si, ii, layouts, best_layouts,
          best_panel_count, best_waste, best_summary, items_used, result, hist>>

-----------------------------------------------------------------------------
(* Generic helpers *)

Abs(a) == IF a < 0 THEN 0 - a ELSE a

Min(a, b) == IF a < b THEN a ELSE b

Max(a, b) == IF a > b THEN a ELSE b

\* Option<T>: None is <<>>, Some(v) is <<v>>.
None == <<>>

Some(v) == <<v>>

IsSome(o) == Len(o) = 1

\* Vec::sort_by is a stable sort.  Every comparator of the code orders by one
\* or two numbers, descending; the model sorts the elements by such a pair
\* (keys[k] for s[k]) with an insertion sort that puts each element behind
\* every element it does not strictly precede.
KeyBefore(a, b) == a[1] > b[1] \/ (a[1] = b[1] /\ a[2] > b[2])

RECURSIVE InsertSorted(_, _, _)
InsertSorted(s, e, i) ==
    IF i > Len(s) THEN Append(s, e)
    ELSE IF KeyBefore(e.key, s[i].key)
         THEN SubSeq(s, 1, i - 1) \o <<e>> \o SubSeq(s, i, Len(s))
         ELSE InsertSorted(s, e, i + 1)

RECURSIVE SortFrom(_, _, _)
SortFrom(s, i, acc) ==
    IF i > Len(s) THEN acc
    ELSE SortFrom(s, i + 1, InsertSorted(acc, s[i], 1))

sort_by(s, keys) ==
    LET sorted == SortFrom([k \in 1..Len(s) |-> [value |-> s[k], key |-> keys[k]]], 1, <<>>)
    IN  [k \in 1..Len(s) |-> sorted[k].value]

RECURSIVE SumSeq(_, _)
SumSeq(s, i) == IF i > Len(s) THEN 0 ELSE s[i] + SumSeq(s, i + 1)

-----------------------------------------------------------------------------
(* Tolerances and thresholds of the code, in model units *)

\* 0.5 mm: prune_contained_rects eps, the find_unused_areas filter, areas_overlap eps
HalfMm == 1

\* 1.0 mm: merge_unused_areas eps and calculate_contact_score eps
OneMm == 2

\* 10 mm: merge_unused_areas drops rectangles thinner than this; tight-fit bonus
TenMm == 20

\* 50 mm: sliver limit
FiftyMm == 100

\* 100 mm: good-fit bonus limit
HundredMm == 200

\* MIN_WASTE_THRESHOLD_PERCENT
MIN_WASTE_THRESHOLD_PERCENT == 8

-----------------------------------------------------------------------------
(* layout.rs: free-rectangle tracking *)

UnusedArea(x, y, w, h) == [x |-> x, y |-> y, width |-> w, height |-> h]

\* contains if no rectangle ever counted as inside another
contains_never(self, other, eps) == FALSE

\* UnusedArea::contains
contains(self, other, eps) ==
    /\ other.x >= self.x - eps
    /\ other.y >= self.y - eps
    /\ other.x + other.width <= self.x + self.width + eps
    /\ other.y + other.height <= self.y + self.height + eps

\* overlaps if it never saw an overlap
overlaps_never(self, other) == FALSE

\* UnusedArea::overlaps
overlaps(self, other) ==
    /\ self.x < other.x + other.width
    /\ self.x + self.width > other.x
    /\ self.y < other.y + other.height
    /\ self.y + self.height > other.y

RECURSIVE PruneFrom(_, _)
PruneFrom(rects, i) ==
    IF i > Len(rects) THEN <<>>
    ELSE (IF \E j \in 1..Len(rects) : i # j /\ contains(rects[j], rects[i], HalfMm)
          THEN <<>> ELSE <<rects[i]>>)
         \o PruneFrom(rects, i + 1)

prune_contained_rects(rects) == PruneFrom(rects, 1)

\* The up-to-four residual rectangles of one free rectangle (or the rectangle
\* itself when the placement does not overlap it).
SplitRect(rect, placed) ==
    IF ~overlaps(rect, placed) THEN <<rect>>
    ELSE LET placed_right == placed.x + placed.width
             rect_right   == rect.x + rect.width
             placed_top   == placed.y + placed.height
             rect_top     == rect.y + rect.height
         IN  (IF placed.x > rect.x
              THEN <<UnusedArea(rect.x, rect.y, placed.x - rect.x, rect.height)>>
              ELSE <<>>)
             \o (IF placed_right < rect_right
                 THEN <<UnusedArea(placed_right, rect.y, rect_right - placed_right, rect.height)>>
                 ELSE <<>>)
             \o (IF placed.y > rect.y
                 THEN <<UnusedArea(rect.x, rect.y, rect.width, placed.y - rect.y)>>
                 ELSE <<>>)
             \o (IF placed_top < rect_top
                 THEN <<UnusedArea(rect.x, placed_top, rect.width, rect_top - placed_top)>>
                 ELSE <<>>)

RECURSIVE SplitFrom(_, _, _)
SplitFrom(free_rects, placed, i) ==
    IF i > Len(free_rects) THEN <<>>
    ELSE SplitRect(free_rects[i], placed) \o SplitFrom(free_rects, placed, i + 1)

split_free_rects_around_placement(free_rects, placed) ==
    prune_contained_rects(SplitFrom(free_rects, placed, 1))

\* placed_rect if the kerf were reserved twice
placed_rect_double_kerf(placement) ==
    UnusedArea(placement.x, placement.y,
               placement.width + (request.cut_width * 2),
               placement.height + (request.cut_width * 2))

\* placed_rect if it ended one millimetre short of the placement's right and
\* top edges
placed_rect_one_mm_short(placement) ==
    UnusedArea(placement.x, placement.y,
               placement.width + request.cut_width - OneMm,
               placement.height + request.cut_width - OneMm)

\* The rectangle a placement reserves: kerf added on its right and top.
placed_rect(placement) ==
    UnusedArea(placement.x, placement.y,
               placement.width + request.cut_width,
               placement.height + request.cut_width)

RECURSIVE SplitAllPlacements(_, _, _)
SplitAllPlacements(free_rects, placements, i) ==
    IF i > Len(placements) THEN free_rects
    ELSE SplitAllPlacements(
             split_free_rects_around_placement(free_rects, placed_rect(placements[i])),
             placements, i + 1)

\* find_unused_areas starting from the whole sheet, the trimming margin included
find_unused_areas_untrimmed(layout) ==
    SelectSeq(
        SplitAllPlacements(<<UnusedArea(0, 0, layout.width, layout.height)>>,
                           layout.placements, 1),
        LAMBDA r : r.width > HalfMm /\ r.height > HalfMm)

find_unused_areas(layout) ==
    LET usable_width  == layout.width - (layout.trimming * 2)
        usable_height == layout.height - (layout.trimming * 2)
    IN  IF usable_width <= 0 \/ usable_height <= 0 THEN <<>>
        ELSE SelectSeq(
                 SplitAllPlacements(
                     <<UnusedArea(layout.trimming, layout.trimming, usable_width, usable_height)>>,
                     layout.placements, 1),
                 LAMBDA r : r.width > HalfMm /\ r.height > HalfMm)

-----------------------------------------------------------------------------
(* mod.rs: placement scoring.  A score is 20 times the code's f64 score,  *)
(* held as int + num/den with 0 <= num < den.                              *)

\* model score per unit of the code's score
ScoreScale == 20

\* model score per (mm-valued term of the code * model length unit)
LenScale == 10

\* 1.0 mm^2 in model area units (the .max(1.0) of fit_ratio)
OneMm2 == 4

Score(i, n, d) == [int |-> i, num |-> n, den |-> d]

ScoreLess(a, b) ==
    \/ a.int < b.int
    \/ a.int = b.int /\ a.num * b.den < b.num * a.den

ScoreAdd(a, k) == Score(a.int + k, a.num, a.den)

Placement(id, x, y, w, h, rot) ==
    [item_id |-> id, x |-> x, y |-> y, width |-> w, height |-> h, rotated |-> rot]

\* Contact of the candidate with one existing placement.
ContactWith(x, y, width, height, placement) ==
    LET p_right == placement.x + placement.width
        p_top   == placement.y + placement.height
        v_overlap_start == Max(y, placement.y)
        v_overlap_end   == Min(y + height, p_top)
        h_overlap_start == Max(x, placement.x)
        h_overlap_end   == Min(x + width, p_right)
    IN  (IF v_overlap_end > v_overlap_start
         THEN (IF Abs(x - p_right - request.cut_width) < OneMm
               THEN v_overlap_end - v_overlap_start ELSE 0)
              + (IF Abs(x + width + request.cut_width - placement.x) < OneMm
                 THEN v_overlap_end - v_overlap_start ELSE 0)
         ELSE 0)
        + (IF h_overlap_end > h_overlap_start
           THEN (IF Abs(y - p_top - request.cut_width) < OneMm
                 THEN h_overlap_end - h_overlap_start ELSE 0)
                + (IF Abs(y + height + request.cut_width - placement.y) < OneMm
                   THEN h_overlap_end - h_overlap_start ELSE 0)
           ELSE 0)

calculate_contact_score(x, y, width, height, layout) ==
    LET right_boundary == layout.width - layout.trimming
        top_boundary   == layout.height - layout.trimming
    IN  (IF Abs(x - layout.trimming) < OneMm THEN height ELSE 0)
        + (IF Abs(y - layout.trimming) < OneMm THEN width ELSE 0)
        + (IF Abs(x + width - right_boundary) < OneMm THEN height ELSE 0)
        + (IF Abs(y + height - top_boundary) < OneMm THEN width ELSE 0)
        + SumSeq([k \in 1..Len(layout.placements) |->
                     ContactWith(x, y, width, height, layout.placements[k])], 1)

\* The score from the leftovers of the free rectangle, its area and the contact
\* score of the candidate.
placement_score(x, y, width_leftover, height_leftover, area_size, contact_score) ==
    LET fit_num == Max(width_leftover, 0) * Max(height_leftover, 0)
        fit_den == Max(area_size, OneMm2)
        sliver_penalty ==
            (IF width_leftover > 0 /\ width_leftover < FiftyMm
             THEN (FiftyMm - width_leftover) * 10 * LenScale ELSE 0)
            + (IF height_leftover > 0 /\ height_leftover < FiftyMm
               THEN (FiftyMm - height_leftover) * 10 * LenScale ELSE 0)
    IN  IF request.min_initial_usage
        THEN LET position_score == LenScale * y * 100 + x
                 height_fit_bonus ==
                     IF Abs(height_leftover) < TenMm THEN ScoreScale * (0 - 50000)
                     ELSE IF height_leftover > 0 /\ height_leftover < HundredMm
                          THEN ScoreScale * (0 - 20000) ELSE 0
                 width_fit_bonus ==
                     IF Abs(width_leftover) < TenMm THEN ScoreScale * (0 - 30000)
                     ELSE IF width_leftover > 0 /\ width_leftover < HundredMm
                          THEN ScoreScale * (0 - 10000) ELSE 0
                 fit == ScoreScale * 10000 * fit_num
             IN  Score(position_score + (fit \div fit_den)
                           - LenScale * contact_score * 500
                           + sliver_penalty + height_fit_bonus + width_fit_bonus,
                       fit % fit_den, fit_den)
        ELSE IF request.optimize_for_reusable_remnants
        THEN Score(LenScale * (y * 10000 + x) + sliver_penalty * 2
                       - LenScale * contact_score * 50, 0, 1)
        ELSE Score(LenScale * (y * 10000 + x) - LenScale * contact_score * 200
                       + sliver_penalty, 0, 1)

calculate_placement_score(x, y, width, height, area, layout) ==
    placement_score(x, y,
                    area.width - width - request.cut_width,
                    area.height - height - request.cut_width,
                    area.width * area.height,
                    calculate_contact_score(x, y, width, height, layout))

Cand(placement, score) == [placement |-> placement, score |-> score]

\* The first candidate of least score (a later one replaces the best only if
\* strictly lower; Iterator::min_by also returns the first minimum).
RECURSIVE FirstMinFrom(_, _, _)
FirstMinFrom(cands, i, best) ==
    IF i > Len(cands) THEN best
    ELSE FirstMinFrom(cands, i + 1,
             IF ~IsSome(best) \/ ScoreLess(cands[i].score, best[1].score)
             THEN Some(cands[i]) ELSE best)

FirstMin(cands) == FirstMinFrom(cands, 1, None)

\* The candidates one free rectangle offers: the item's own orientation, then
\* the rotated one.
AreaCandidates(item, area, layout) ==
    (IF item.width <= area.width /\ item.height <= area.height
     THEN <<Cand(Placement(item.id, area.x, area.y, item.width, item.height, FALSE),
                 calculate_placement_score(area.x, area.y, item.width, item.height,
                                           area, layout))>>
     ELSE <<>>)
    \o (IF item.can_rotate /\ item.height <= area.width /\ item.width <= area.height
        THEN <<Cand(Placement(item.id, area.x, area.y, item.height, item.width, TRUE),
                    calculate_placement_score(area.x, area.y, item.height, item.width,
                                              area, layout))>>
        ELSE <<>>)

RECURSIVE CandidatesFrom(_, _, _, _)
CandidatesFrom(item, areas, layout, i) ==
    IF i > Len(areas) THEN <<>>
    ELSE AreaCandidates(item, areas[i], layout) \o CandidatesFrom(item, areas, layout, i + 1)

generate_candidate_placements(item, layout) ==
    CandidatesFrom(item, find_unused_areas(layout), layout, 1)

\* Option<(Placement, f64)>
find_best_placement(item, layout) ==
    FirstMin(CandidatesFrom(item, find_unused_areas(layout), layout, 1))

-----------------------------------------------------------------------------
(* mod.rs: opening a new panel *)

PanelLayout(type_id, number, w, h, trimming, placements) ==
    [panel_type_id |-> type_id, panel_number |-> number, width |-> w, height |-> h,
     trimming |-> trimming, placements |-> placements, unused_areas |-> <<>>]

capacity_for_dims(item_width, item_height, usable_width, usable_height) ==
    IF \/ item_width <= 0
       \/ item_height <= 0
       \/ item_width > usable_width
       \/ item_height > usable_height
    THEN 0
    ELSE LET step_w == item_width + request.cut_width
             step_h == item_height + request.cut_width
         IN  IF step_w <= 0 \/ step_h <= 0 THEN 0
             ELSE ((usable_width + request.cut_width) \div step_w)
                  * ((usable_height + request.cut_width) \div step_h)

estimate_panel_capacity(item, panel_width, panel_height, trimming) ==
    LET usable_width  == panel_width - (trimming * 2)
        usable_height == panel_height - (trimming * 2)
    IN  IF usable_width <= 0 \/ usable_height <= 0 THEN 0
        ELSE Max(capacity_for_dims(item.width, item.height, usable_width, usable_height),
                 IF item.can_rotate
                 THEN capacity_for_dims(item.height, item.width, usable_width, usable_height)
                 ELSE 0)

\* Option<(Placement, f64)> of the item at the trimming corner of a fresh panel.
best_new_panel_placement(item, panel_type, panel_width, panel_height) ==
    LET usable_width  == panel_width - (panel_type.trimming * 2)
        usable_height == panel_height - (panel_type.trimming * 2)
        layout == PanelLayout(panel_type.id, 1, panel_width, panel_height,
                              panel_type.trimming, <<>>)
        area == UnusedArea(panel_type.trimming, panel_type.trimming,
                           usable_width, usable_height)
    IN  IF usable_width <= 0 \/ usable_height <= 0 THEN None
        ELSE FirstMin(AreaCandidates(item, area, layout))

\* The orientations place_on_new_panel tries for one panel type.
\* orientations without the swapped sheet
orientations_as_given(panel_type) == <<<<panel_type.width, panel_type.height>>>>

orientations(panel_type) ==
    IF panel_type.width = panel_type.height
    THEN <<<<panel_type.width, panel_type.height>>>>
    ELSE <<<<panel_type.width, panel_type.height>>,
           <<panel_type.height, panel_type.width>>>>

\* best_candidate after one more (panel type, orientation) has been looked at:
\* found is what best_new_panel_placement returned, capacity the estimate.
better_new_panel(panel_type, o, found, capacity, best_candidate) ==
    IF ~IsSome(found) THEN best_candidate
    ELSE IF \/ ~IsSome(best_candidate)
            \/ capacity > best_candidate[1].capacity
            \/ /\ capacity = best_candidate[1].capacity
               /\ ScoreLess(found[1].score, best_candidate[1].score)
         THEN Some([panel_type |-> panel_type, panel_width |-> o[1], panel_height |-> o[2],
                    placement |-> found[1].placement, score |-> found[1].score,
                    capacity |-> capacity])
         ELSE best_candidate

NewPanelCandidate(item, panel_type, o, best_candidate) ==
    better_new_panel(panel_type, o,
                     best_new_panel_placement(item, panel_type, o[1], o[2]),
                     estimate_panel_capacity(item, o[1], o[2], panel_type.trimming),
                     best_candidate)

RECURSIVE NewPanelFrom(_, _, _, _)
NewPanelFrom(item, t, k, best_candidate) ==
    IF t > Len(request.panel_types) THEN best_candidate
    ELSE IF k > Len(orientations(request.panel_types[t]))
         THEN NewPanelFrom(item, t + 1, 1, best_candidate)
         ELSE NewPanelFrom(item, t, k + 1,
                  NewPanelCandidate(item, request.panel_types[t],
                                    orientations(request.panel_types[t])[k],
                                    best_candidate))

\* Some(candidate), or None for Err(CannotFitAll).
place_on_new_panel(item) == NewPanelFrom(item, 1, 1, None)

-----------------------------------------------------------------------------
(* mod.rs: the best existing layout for an item *)

\* Added to the score of layout idx (0-based) under min_initial_usage.
PanelPenalty(idx) ==
    IF request.min_initial_usage THEN ScoreScale * 1000000 * idx ELSE 0

\* best_fit after layout k has been looked at: found is what
\* find_best_placement returned for it.
better_fit(k, found, best_fit) ==
    IF ~IsSome(found) THEN best_fit
    ELSE IF \/ ~IsSome(best_fit)
            \/ ScoreLess(ScoreAdd(found[1].score, PanelPenalty(k - 1)), best_fit[1].score)
         THEN Some([idx |-> k, placement |-> found[1].placement,
                    score |-> ScoreAdd(found[1].score, PanelPenalty(k - 1))])
         ELSE best_fit

RECURSIVE BestFitFrom(_, _, _, _)
BestFitFrom(item, lays, k, best_fit) ==
    IF k > Len(lays) THEN best_fit
    ELSE BestFitFrom(item, lays, k + 1,
                     better_fit(k, find_best_placement(item, lays[k]), best_fit))

\* best_fit of best_fit_decreasing_optimize: Option<(idx, Placement, score)>
bfd_best_fit(item, lays) == BestFitFrom(item, lays, 1, None)

\* best_fit of try_reduce_panels
reduce_best_fit(item, lays) == BestFitFrom(item, lays, 1, None)

push_placement(lays, idx, placement) ==
    [lays EXCEPT ![idx].placements = Append(@, placement)]

-----------------------------------------------------------------------------
(* mod.rs: expanding and ordering the items *)

Item(id, w, h, quantity, can_rotate) ==
    [id |-> id, width |-> w, height |-> h, quantity |-> quantity, can_rotate |-> can_rotate]

\* format!("{}_{}", item.id, i + 1) when quantity > 1, else the id itself
expanded_id(item, i) ==
    IF item.quantity > 1 THEN item.id \o "_" \o ToString(i + 1) ELSE item.id

RECURSIVE ExpandFrom(_, _)
ExpandFrom(items, k) ==
    IF k > Len(items) THEN <<>>
    ELSE [i \in 1..items[k].quantity |->
             Item(expanded_id(items[k], i - 1), items[k].width, items[k].height,
                  1, items[k].can_rotate)]
         \o ExpandFrom(items, k + 1)

expand_items == ExpandFrom(request.items, 1)

\* swap_dims if only the width were assigned
swap_dims_width_only(item) == [item EXCEPT !.width = item.height]

swap_dims(item) == [item EXCEPT !.width = item.height, !.height = item.width]

normalize_tall(items) ==
    [k \in 1..Len(items) |->
        IF items[k].can_rotate /\ items[k].width > items[k].height
        THEN swap_dims(items[k]) ELSE items[k]]

normalize_wide(items) ==
    [k \in 1..Len(items) |->
        IF items[k].can_rotate /\ items[k].height > items[k].width
        THEN swap_dims(items[k]) ELSE items[k]]

\* The sort keys of the comparators: area descending; height, then width,
\* descending; width, then height, descending.
area_desc(s) == [k \in 1..Len(s) |-> <<s[k].width * s[k].height, 0>>]

height_then_width_desc(s) == [k \in 1..Len(s) |-> <<s[k].height, s[k].width>>]

width_then_height_desc(s) == [k \in 1..Len(s) |-> <<s[k].width, s[k].height>>]

sort_by_area_desc(s) == sort_by(s, area_desc(s))

sort_by_height_then_width_desc(s) == sort_by(s, height_then_width_desc(s))

sort_by_width_then_height_desc(s) == sort_by(s, width_then_height_desc(s))

generate_sort_strategies(items) ==
    << sort_by_area_desc(items),
       sort_by_height_then_width_desc(items),
       sort_by_width_then_height_desc(items),
       sort_by_height_then_width_desc(normalize_tall(items)),
       sort_by_width_then_height_desc(normalize_wide(items)),
       sort_by_area_desc(normalize_tall(items)) >>

NumStrategies == 6

-----------------------------------------------------------------------------
(* mod.rs: one item of best_fit_decreasing_optimize *)

type_count(lays, type_id) ==
    Cardinality({k \in 1..Len(lays) : lays[k].panel_type_id = type_id})

\* The layouts with a new panel for the candidate place_on_new_panel returned:
\* Some(layouts), or None when it returned Err(CannotFitAll).
open_panel(lays, opened) ==
    IF IsSome(opened)
    THEN Some(Append(lays,
             PanelLayout(opened[1].panel_type.id,
                         type_count(lays, opened[1].panel_type.id) + 1,
                         opened[1].panel_width, opened[1].panel_height,
                         opened[1].panel_type.trimming,
                         <<opened[1].placement>>)))
    ELSE None

\* place_best_fit if every item opened a panel of its own
place_on_panel_of_its_own(item, lays, best_fit) ==
    open_panel(lays, place_on_new_panel(item))

\* The layouts after the item, given the best_fit among the existing layouts.
place_best_fit(item, lays, best_fit) ==
    IF IsSome(best_fit)
    THEN Some(push_placement(lays, best_fit[1].idx, best_fit[1].placement))
    ELSE open_panel(lays, place_on_new_panel(item))

\* The layouts after the item: Some(layouts), or None when place_on_new_panel
\* returned Err(CannotFitAll).
bfd_place(item, lays) == place_best_fit(item, lays, bfd_best_fit(item, lays))

-----------------------------------------------------------------------------
(* mod.rs: try_reduce_panels and renumber_panels *)

\* used_area_of counting the kerf with each piece
used_area_of_with_kerf(layout) ==
    SumSeq([k \in 1..Len(layout.placements) |->
               (layout.placements[k].width + request.cut_width)
                   * (layout.placements[k].height + request.cut_width)], 1)

used_area_of(layout) ==
    SumSeq([k \in 1..Len(layout.placements) |->
               layout.placements[k].width * layout.placements[k].height], 1)

\* Iterator::min_by returns the first of several equally small elements.
min_used_idx(current) ==
    CHOOSE i \in 1..Len(current) :
        /\ \A j \in 1..Len(current) : used_area_of(current[i]) <= used_area_of(current[j])
        /\ \A j \in 1..(i - 1) : used_area_of(current[j]) > used_area_of(current[i])

\* lookup_can_rotate if the lookup always fell back to its default
lookup_can_rotate_default(item_id, expanded) == TRUE

\* can_rotate of the first expanded item with this id; true when there is none
lookup_can_rotate(item_id, expanded) ==
    IF \E k \in 1..Len(expanded) : expanded[k].id = item_id
    THEN expanded[CHOOSE k \in 1..Len(expanded) :
                      /\ expanded[k].id = item_id
                      /\ \A j \in 1..(k - 1) : expanded[j].id # item_id].can_rotate
    ELSE TRUE

\* The Item reconstructed from a placement of the targeted panel.
reconstruct_item(p, expanded) ==
    Item(p.item_id,
         IF p.rotated THEN p.height ELSE p.width,
         IF p.rotated THEN p.width ELSE p.height,
         1, lookup_can_rotate(p.item_id, expanded))

items_to_place(target_panel, expanded) ==
    sort_by_area_desc([k \in 1..Len(target_panel.placements) |->
                          reconstruct_item(target_panel.placements[k], expanded)])

\* remove_at if the element stayed
remove_at_nothing(s, i) == s

remove_at(s, i) == SubSeq(s, 1, i - 1) \o SubSeq(s, i + 1, Len(s))

\* The remaining panels after one item of the removed panel, given its best_fit,
\* if an item no remaining panel takes were left out
moved_or_dropped(test, best_fit) ==
    IF IsSome(best_fit)
    THEN Some(push_placement(test, best_fit[1].idx, best_fit[1].placement))
    ELSE Some(test)

\* The remaining panels after one item of the removed panel, given its best_fit:
\* Some(test) with the item pushed, None (all_placed = false) without a fit.
moved(test, best_fit) ==
    IF IsSome(best_fit)
    THEN Some(push_placement(test, best_fit[1].idx, best_fit[1].placement))
    ELSE None

\* Some(test) when every item found a place, None at the first that did not.
RECURSIVE redistribute(_, _, _)
redistribute(items, test, k) ==
    IF k > Len(items) \/ ~IsSome(test) THEN test
    ELSE redistribute(items, moved(test[1], reduce_best_fit(items[k], test[1])), k + 1)

\* One iteration of the loop of try_reduce_panels on more than one panel.
reduce_iteration(current, expanded) ==
    LET min_idx == min_used_idx(current)
    IN  redistribute(items_to_place(current[min_idx], expanded),
                     Some(remove_at(current, min_idx)), 1)

\* renumber_panels that keeps the numbers given when the panels were opened
renumber_panels_skipped(lays) == lays

renumber_panels(lays) ==
    [k \in 1..Len(lays) |->
        [lays[k] EXCEPT !.panel_number =
            Cardinality({j \in 1..k : lays[j].panel_type_id = lays[k].panel_type_id})]]

-----------------------------------------------------------------------------
(* layout.rs: the unused areas reported in the output *)

\* Phase 1, inner loop: absorb into current every later unused rectangle that is
\* aligned with it and adjacent to it.
RECURSIVE MergeInner(_, _, _, _, _)
MergeInner(working, current, j, used, merged_any) ==
    IF j > Len(working)
    THEN [current |-> current, used |-> used, merged_any |-> merged_any]
    ELSE IF j \in used THEN MergeInner(working, current, j + 1, used, merged_any)
    ELSE LET other == working[j]
             same_x == Abs(current.x - other.x) < OneMm
             same_width == Abs(current.width - other.width) < OneMm
             v_adjacent_above == Abs(current.y - (other.y + other.height)) < OneMm
             v_adjacent_below == Abs(other.y - (current.y + current.height)) < OneMm
             same_y == Abs(current.y - other.y) < OneMm
             same_height == Abs(current.height - other.height) < OneMm
             h_adjacent_left == Abs(current.x - (other.x + other.width)) < OneMm
             h_adjacent_right == Abs(other.x - (current.x + current.width)) < OneMm
         IN  IF same_x /\ same_width /\ (v_adjacent_above \/ v_adjacent_below)
             THEN MergeInner(working,
                      UnusedArea(current.x, Min(current.y, other.y),
                                 current.width, current.height + other.height),
                      j + 1, used \cup {j}, TRUE)
             ELSE IF same_y /\ same_height /\ (h_adjacent_left \/ h_adjacent_right)
             THEN MergeInner(working,
                      UnusedArea(Min(current.x, other.x), current.y,
                                 current.width + other.width, current.height),
                      j + 1, used \cup {j}, TRUE)
             ELSE MergeInner(working, current, j + 1, used, merged_any)

\* Phase 1, one pass over working.
RECURSIVE MergePass(_, _, _, _, _), MergePassNext(_, _, _, _)
MergePass(working, i, used, new_working, merged_any) ==
    IF i > Len(working)
    THEN [working |-> new_working, merged_any |-> merged_any]
    ELSE IF i \in used THEN MergePass(working, i + 1, used, new_working, merged_any)
    ELSE MergePassNext(working, i, new_working,
                       MergeInner(working, working[i], i + 1, used \cup {i}, merged_any))

\* ... continued with what the inner loop returned for working[i]
MergePassNext(working, i, new_working, r) ==
    MergePass(working, i + 1, r.used, Append(new_working, r.current), r.merged_any)

\* Phase 1: passes until one merges nothing.
RECURSIVE MergeLoop(_), MergeLoopNext(_)
MergeLoop(working) == MergeLoopNext(MergePass(working, 1, {}, <<>>, FALSE))

\* ... continued with what the pass returned
MergeLoopNext(pass) ==
    IF pass.merged_any THEN MergeLoop(pass.working) ELSE pass.working

\* Phase 2: largest first, drop thin rectangles and those inside a kept one.
RECURSIVE KeepUncontained(_, _, _)
KeepUncontained(working, i, res) ==
    IF i > Len(working) THEN res
    ELSE KeepUncontained(working, i + 1,
             IF working[i].width < TenMm \/ working[i].height < TenMm THEN res
             ELSE IF \E k \in 1..Len(res) : contains(res[k], working[i], OneMm) THEN res
             ELSE Append(res, working[i]))

merge_unused_areas(areas) ==
    IF Len(areas) = 0 THEN <<>>
    ELSE KeepUncontained(sort_by_area_desc(MergeLoop(areas)), 1, <<>>)

compute_output_unused_areas(layout) == merge_unused_areas(find_unused_areas(layout))

-----------------------------------------------------------------------------
(* summary.rs *)

\* count_panels that records each panel type once
count_panels_once(lays) ==
    [t \in {lays[k].panel_type_id : k \in 1..Len(lays)} |-> 1]

\* HashMap<String, u32>: a function on the panel type ids that occur
count_panels(lays) ==
    [t \in {lays[k].panel_type_id : k \in 1..Len(lays)} |-> type_count(lays, t)]

areas_overlap(a, b) ==
    /\ a.x < b.x + b.width - HalfMm
    /\ a.x + a.width > b.x + HalfMm
    /\ a.y < b.y + b.height - HalfMm
    /\ a.y + a.height > b.y + HalfMm

\* The area accepted as reusable on one panel: largest first, at least min_size,
\* overlapping no rectangle accepted before.
RECURSIVE AcceptFrom(_, _, _, _, _)
AcceptFrom(unused_areas, i, min_size, accepted, reusable_area) ==
    IF i > Len(unused_areas) THEN reusable_area
    ELSE LET area == unused_areas[i]
             area_size == area.width * area.height
         IN  IF area_size < min_size
             THEN AcceptFrom(unused_areas, i + 1, min_size, accepted, reusable_area)
             ELSE IF \E k \in 1..Len(accepted) : areas_overlap(accepted[k], area)
             THEN AcceptFrom(unused_areas, i + 1, min_size, accepted, reusable_area)
             ELSE AcceptFrom(unused_areas, i + 1, min_size, Append(accepted, area),
                             reusable_area + area_size)

layout_reusable_area(layout, min_size) ==
    AcceptFrom(sort_by_area_desc(compute_output_unused_areas(layout)), 1, min_size, <<>>, 0)

\* A percentage 100 * num / den, kept exact as the pair (0/1 when total_area = 0).
Percentage(part, total) ==
    IF total > 0 THEN [num |-> part * 100, den |-> total] ELSE [num |-> 0, den |-> 1]

\* remnant accounting that takes the reusable area from the total area
remnant_accounting_of_total(summed, waste_area, total_area) ==
    LET reusable_area == Min(summed, waste_area)
        actual_waste  == total_area - reusable_area
    IN  [reusable_remnant_area |-> Some(reusable_area),
         actual_waste_area |-> Some(actual_waste),
         actual_waste_percentage |-> Some(Percentage(actual_waste, total_area))]

\* The three Some(..) fields, from the summed reusable area of the panels:
\* clamped to waste_area, then taken from it.
remnant_accounting(summed, waste_area, total_area) ==
    LET reusable_area == Min(summed, waste_area)
        actual_waste  == waste_area - reusable_area
    IN  [reusable_remnant_area |-> Some(reusable_area),
         actual_waste_area |-> Some(actual_waste),
         actual_waste_percentage |-> Some(Percentage(actual_waste, total_area))]

\* (None, None, None) of the summary without min_reusable_remnant_size
NoRemnants ==
    [reusable_remnant_area |-> None, actual_waste_area |-> None,
     actual_waste_percentage |-> None]

\* total_area if it summed the usable areas of the panels
total_area_of_usable(lays) ==
    SumSeq([k \in 1..Len(lays) |->
               (lays[k].width - (lays[k].trimming * 2))
               * (lays[k].height - (lays[k].trimming * 2))], 1)

total_area_of(lays) ==
    SumSeq([k \in 1..Len(lays) |-> lays[k].width * lays[k].height], 1)

total_used_area_of(lays) ==
    SumSeq([k \in 1..Len(lays) |-> used_area_of(lays[k])], 1)

\* reusable_area before the clamp: the accepted remnants of all layouts
summed_reusable_area(lays, min_size) ==
    SumSeq([k \in 1..Len(lays) |-> layout_reusable_area(lays[k], min_size)], 1)

\* The Summary from its sums and the remnant fields.
Summary(total_panels, total_area, used_area, remnants) ==
    [total_panels |-> total_panels,
     total_area |-> total_area,
     used_area |-> used_area,
     waste_area |-> total_area - used_area,
     waste_percentage |-> Percentage(total_area - used_area, total_area),
     reusable_remnant_area |-> remnants.reusable_remnant_area,
     actual_waste_area |-> remnants.actual_waste_area,
     actual_waste_percentage |-> remnants.actual_waste_percentage]

calculate_summary(lays) ==
    Summary(Len(lays), total_area_of(lays), total_used_area_of(lays),
            IF IsSome(request.min_reusable_remnant_size)
            THEN remnant_accounting(
                     summed_reusable_area(lays, request.min_reusable_remnant_size[1]),
                     total_area_of(lays) - total_used_area_of(lays),
                     total_area_of(lays))
            ELSE NoRemnants)

-----------------------------------------------------------------------------
(* optional.rs *)

OptionalItem(id, w, h, quantity, can_rotate, priority) ==
    [id |-> id, width |-> w, height |-> h, quantity |-> quantity,
     can_rotate |-> can_rotate, priority |-> priority]

optional_to_item(opt) == Item(opt.id, opt.width, opt.height, 1, opt.can_rotate)

\* Option<Placement>: the first candidate of least score
try_place_item(item, layout) ==
    LET best == FirstMin(generate_candidate_placements(item, layout))
    IN  IF IsSome(best) THEN Some(best[1].placement) ELSE None

\* unwrap_or: the actual_* value when remnant accounting is on
effective_waste_pct(summary) ==
    IF IsSome(summary.actual_waste_percentage)
    THEN summary.actual_waste_percentage[1] ELSE summary.waste_percentage

effective_waste(summary) ==
    IF IsSome(summary.actual_waste_area)
    THEN summary.actual_waste_area[1] ELSE summary.waste_area

\* below_threshold if the threshold were never applied
below_threshold_never(summary) == FALSE

\* effective_waste_pct <= MIN_WASTE_THRESHOLD_PERCENT
below_threshold(summary) ==
    effective_waste_pct(summary).num
        <= MIN_WASTE_THRESHOLD_PERCENT * effective_waste_pct(summary).den

RECURSIVE PoolFrom(_, _)
PoolFrom(panel_types, t) ==
    IF t > Len(panel_types) THEN <<>>
    ELSE [k \in 1..Len(panel_types[t].optional_items) |->
             [panel_type_id |-> panel_types[t].id,
              item |-> panel_types[t].optional_items[k]]]
         \o PoolFrom(panel_types, t + 1)

priority_then_area_desc(pool) ==
    [k \in 1..Len(pool) |-> <<pool[k].item.priority, pool[k].item.width * pool[k].item.height>>]

\* sort_by_priority_then_area_desc if the pool were left as declared
pool_as_declared(pool) == pool

sort_by_priority_then_area_desc(pool) == sort_by(pool, priority_then_area_desc(pool))

optional_items_pool == sort_by_priority_then_area_desc(PoolFrom(request.panel_types, 1))

\* commit_if_less_waste if every placement found were committed
commit_always(test_layouts, summary) == Some(test_layouts)

\* The test layouts when their effective waste is lower than the best so far.
commit_if_less_waste(test_layouts, summary) ==
    IF effective_waste(calculate_summary(test_layouts)) < effective_waste(summary)
    THEN Some(test_layouts)
    ELSE None

\* push_optional if the placement went on a fresh copy of the panel, appended to
\* the layouts, and were committed without the waste comparison
push_optional_on_new_panel(placement, layout_idx, lays, summary) ==
    IF ~IsSome(placement) THEN None
    ELSE Some(Append(lays, [lays[layout_idx] EXCEPT !.placements = <<placement[1]>>]))

\* The layouts with the placement try_place_item returned pushed on layout_idx,
\* when there is one and it lowers the effective waste.
push_optional(placement, layout_idx, lays, summary) ==
    IF ~IsSome(placement) THEN None
    ELSE commit_if_less_waste(push_placement(lays, layout_idx, placement[1]), summary)

\* The layouts with the entry's item placed on layout_idx, when that is possible
\* and lowers the effective waste: Some(test_layouts), else None.
try_entry_on(entry, layout_idx, lays, summary) ==
    IF lays[layout_idx].panel_type_id # entry.panel_type_id THEN None
    ELSE push_optional(try_place_item(optional_to_item(entry.item), lays[layout_idx]),
                       layout_idx, lays, summary)

\* One pass of the while loop: the first (entry, layout) that commits, in pool
\* order then layout order; None when the pass makes no progress.
RECURSIVE backfill_pass(_, _, _, _, _), backfill_tried(_, _, _, _, _, _)
backfill_pass(pool, e, layout_idx, lays, summary) ==
    IF e > Len(pool) THEN None
    ELSE IF layout_idx > Len(lays) THEN backfill_pass(pool, e + 1, 1, lays, summary)
    ELSE backfill_tried(pool, e, layout_idx, lays, summary,
                        try_entry_on(pool[e], layout_idx, lays, summary))

\* ... continued with what the try of entry e on layout_idx gave
backfill_tried(pool, e, layout_idx, lays, summary, test) ==
    IF IsSome(test)
    THEN Some([layouts |-> test[1], id |-> pool[e].item.id, entry |-> e,
               layout_idx |-> layout_idx])
    ELSE backfill_pass(pool, e, layout_idx + 1, lays, summary)

\* made_progress if a commit never set it
made_progress_never(committed) == FALSE

\* made_progress at the end of a pass: the while loop goes on after a commit.
made_progress(committed) == IsSome(committed)

\* (best_layouts, items_used) as try_add_optional_items returns them
Backfilled(lays, used) == [layouts |-> lays, items_used |-> used]

\* The while loop from best_layouts = lays, best_summary = summary,
\* items_used = used, to the return.
RECURSIVE backfill_while(_, _, _), backfill_while_next(_, _, _)
backfill_while(lays, summary, used) ==
    backfill_while_next(lays, used, backfill_pass(optional_items_pool, 1, 1, lays, summary))

\* ... continued with what the pass gave
backfill_while_next(lays, used, committed) ==
    IF ~IsSome(committed) THEN Backfilled(lays, used)
    ELSE IF made_progress(committed)
         THEN backfill_while(committed[1].layouts, calculate_summary(committed[1].layouts),
                             Append(used, committed[1].id))
         ELSE Backfilled(committed[1].layouts, Append(used, committed[1].id))

try_add_optional_items_from(lays, initial_summary) ==
    IF below_threshold(initial_summary) \/ Len(optional_items_pool) = 0
    THEN Backfilled(lays, <<>>)
    ELSE backfill_while(lays, initial_summary, <<>>)

\* try_add_optional_items as a function of the layouts it receives
try_add_optional_items(lays) == try_add_optional_items_from(lays, calculate_summary(lays))

-----------------------------------------------------------------------------
(* The requests the model runs the engine on *)

PanelType(id, w, h, trimming, optional_items) ==
    [id |-> id, width |-> w, height |-> h, trimming |-> trimming,
     optional_items |-> optional_items]

OptimizationRequest(cut_width, panel_types, items, miu, mrs, ofr) ==
    [cut_width |-> cut_width, panel_types |-> panel_types, items |-> items,
     min_initial_usage |-> miu,
     min_reusable_remnant_size |-> mrs,
     optimize_for_reusable_remnants |-> ofr]

\* Largest quantity of one item line
MaxQuantity == 2

\* Largest number of item lines in a request
MaxLines == 3

\* A setting: everything of a request but its item lines, and the item shapes
\* the lines are drawn from (quantity filled in per request).
Setting(cut_width, panel_types, miu, mrs, ofr, shapes) ==
    [cut_width |-> cut_width, panel_types |-> panel_types, min_initial_usage |-> miu,
     min_reusable_remnant_size |-> mrs, optimize_for_reusable_remnants |-> ofr,
     shapes |-> shapes]

\* Panel types used by the settings
Square == PanelType("p", 12, 12, 0, <<>>)

Trimmed == PanelType("t", 16, 11, 1, <<>>)

Small == PanelType("s", 10, 6, 0, <<>>)

Large == PanelType("l", 16, 12, 2, <<>>)

Sheet == PanelType("w", 60, 44, 1, <<>>)

WithOptional ==
    PanelType("p", 24, 20, 0,
              << OptionalItem("o", 8, 6, 1, TRUE, 1), OptionalItem("a", 10, 4, 1, FALSE, 2),
                 OptionalItem("big", 30, 4, 1, TRUE, 3) >>)

SheetWithOptional ==
    PanelType("w", 60, 44, 1,
              << OptionalItem("o", 20, 10, 1, TRUE, 1), OptionalItem("x", 24, 20, 1, FALSE, 1) >>)

SmallWithOptional == PanelType("s", 10, 6, 0, <<OptionalItem("o", 3, 5, 1, TRUE, 5)>>)

BareSheetWithOptional ==
    PanelType("w", 60, 44, 0,
              << OptionalItem("o", 2, 8, 1, FALSE, 1), OptionalItem("x", 4, 16, 1, TRUE, 1) >>)

Rack == PanelType("p", 31, 52, 1, <<>>)

Strip == PanelType("p", 9, 7, 0, <<>>)

Tiny == PanelType("s", 20, 12, 0, <<OptionalItem("o", 8, 2, 1, TRUE, 1)>>)

Negative == PanelType("n", 12, 12, -1, <<>>)

Unusable == PanelType("u", 12, 4, 2, <<>>)

Plate == PanelType("q", 16, 16, 0, <<>>)

PlateWithOptional == PanelType("q", 16, 16, 0, <<OptionalItem("o", 3, 3, 1, FALSE, 1)>>)

Upright == PanelType("r", 9, 10, 0, <<>>)

BareSheet == PanelType("w", 60, 44, 0, <<>>)

Wide == PanelType("l", 14, 10, 0, <<>>)

Tall == PanelType("s", 10, 12, 0, <<>>)

\* Item shapes used by the settings
Mixed ==
    << Item("a", 12, 4, 1, TRUE), Item("b", 4, 12, 1, FALSE),
       Item("c", 8, 10, 1, TRUE), Item("d", 6, 4, 1, FALSE) >>

Strips ==
    << Item("e", 4, 6, 1, TRUE), Item("f", 8, 4, 1, TRUE),
       Item("g", 8, 8, 1, TRUE), Item("h", 5, 3, 1, FALSE) >>

Clashing ==
    << Item("a", 7, 5, 1, TRUE), Item("a_1", 3, 9, 1, FALSE),
       Item("a", 10, 2, 1, FALSE), Item("k", 13, 13, 1, TRUE) >>

Boards ==
    << Item("m", 30, 20, 1, TRUE), Item("n", 24, 42, 1, FALSE),
       Item("q", 21, 21, 1, TRUE), Item("r", 58, 9, 1, FALSE) >>

Offcuts ==
    << Item("u", 8, 12, 1, TRUE), Item("v", 16, 6, 1, FALSE),
       Item("y", 6, 6, 1, TRUE), Item("z", 10, 4, 1, FALSE) >>

Full ==
    << Item("w", 12, 12, 1, FALSE), Item("x", 10, 6, 1, FALSE),
       Item("y", 12, 8, 1, TRUE), Item("z", 5, 5, 1, FALSE) >>

Slats ==
    << Item("b", 12, 2, 1, FALSE), Item("c", 8, 4, 1, TRUE), Item("d", 6, 6, 1, TRUE) >>

Fillers ==
    << Item("e", 20, 10, 1, FALSE), Item("f", 12, 2, 1, FALSE), Item("g", 20, 8, 1, TRUE) >>

Shelves == << Item("shelf", 16, 9, 3, FALSE) >>

Veneers == << Item("v", 1, 8, 2, FALSE) >>

Slivers == << Item("a", 24, 2, 1, FALSE), Item("b", 1, 16, 1, FALSE), Item("c", 2, 1, 1, FALSE) >>

Settings ==
    { Setting(0, <<Square>>, FALSE, None, FALSE, Mixed),
      Setting(4, <<Square>>, FALSE, None, FALSE, Mixed),
      Setting(2, <<Square>>, TRUE, None, FALSE, Strips),
      Setting(3, <<Trimmed>>, FALSE, None, TRUE, Strips),
      Setting(2, <<Small, Large>>, FALSE, None, FALSE, Clashing),
      Setting(1, <<Large, Small>>, TRUE, None, FALSE, Mixed),
      Setting(4, <<Sheet>>, FALSE, Some(400), FALSE, Boards),
      Setting(2, <<Sheet>>, FALSE, Some(1200), TRUE, Boards),
      Setting(2, <<WithOptional>>, FALSE, None, FALSE, Mixed),
      Setting(0, <<WithOptional, SmallWithOptional>>, FALSE, None, FALSE, Clashing),
      Setting(4, <<SheetWithOptional>>, FALSE, Some(400), FALSE, Boards),
      Setting(2, <<Plate>>, FALSE, None, FALSE, Offcuts),
      Setting(0, <<Upright>>, FALSE, None, FALSE, Clashing),
      Setting(2, <<Square>>, FALSE, None, FALSE, Full),
      Setting(0, <<Small, Large>>, FALSE, None, FALSE, Full),
      Setting(0, <<Wide, Tall>>, FALSE, None, FALSE, Slats),
      Setting(0, <<BareSheetWithOptional>>, FALSE, Some(1200), FALSE, Boards),
      Setting(2, <<BareSheetWithOptional>>, FALSE, Some(1200), FALSE, Boards),
      Setting(0, <<Tiny>>, FALSE, None, FALSE, Fillers),
      Setting(1, <<Rack>>, TRUE, None, FALSE, Shelves),
      Setting(1, <<Strip>>, TRUE, None, FALSE, Veneers),
      Setting(2, <<PlateWithOptional>>, FALSE, None, FALSE, Offcuts),
      Setting(0, <<BareSheet>>, FALSE, None, FALSE, Slivers),
      Setting(0, <<Small>>, FALSE, None, FALSE, Slats),
      Setting(2, <<>>, FALSE, None, FALSE, Mixed),
      Setting(2, <<Square, Negative>>, FALSE, None, FALSE, Mixed),
      Setting(2, <<Unusable>>, FALSE, None, FALSE, Strips) }

\* The item lines of a request: up to MaxLines shapes of the setting, in the
\* setting's order, each with 1..MaxQuantity times the quantity of the shape.
RECURSIVE LinesFrom(_, _, _)
LinesFrom(shapes, k, qty) ==
    IF k > Len(shapes) THEN <<>>
    ELSE (IF qty[k] > 0 THEN <<[shapes[k] EXCEPT !.quantity = @ * qty[k]]>> ELSE <<>>)
         \o LinesFrom(shapes, k + 1, qty)

ItemLists(shapes) ==
    { LinesFrom(shapes, 1, qty) :
        qty \in { q \in [1..Len(shapes) -> 0..MaxQuantity] :
                    Cardinality({k \in 1..Len(shapes) : q[k] > 0}) <= MaxLines } }

Requests ==
    UNION { { OptimizationRequest(s.cut_width, s.panel_types, items, s.min_initial_usage,
                                  s.min_reusable_remnant_size,
                                  s.optimize_for_reusable_remnants) :
                items \in ItemLists(s.shapes) } : s \in Settings }

-----------------------------------------------------------------------------
(* Optimizer::new *)

\* panel_error without the test for a negative trimming
RECURSIVE panel_error_unsigned(_, _)
panel_error_unsigned(panel_types, k) ==
    IF k > Len(panel_types) THEN ""
    ELSE IF \/ panel_types[k].width - (panel_types[k].trimming * 2) <= 0
            \/ panel_types[k].height - (panel_types[k].trimming * 2) <= 0
         THEN "unusable after applying trimming"
    ELSE panel_error_unsigned(panel_types, k + 1)

\* The message of the InvalidInput that Optimizer::new returns, "" for Ok.
RECURSIVE panel_error(_, _)
panel_error(panel_types, k) ==
    IF k > Len(panel_types) THEN ""
    ELSE IF panel_types[k].trimming < 0 THEN "negative trimming"
    ELSE IF \/ panel_types[k].width - (panel_types[k].trimming * 2) <= 0
            \/ panel_types[k].height - (panel_types[k].trimming * 2) <= 0
         THEN "unusable after applying trimming"
    ELSE panel_error(panel_types, k + 1)

new_error(req) ==
    IF Len(req.panel_types) = 0 THEN "At least one panel type must be provided"
    ELSE IF Len(req.items) = 0 THEN "At least one item must be provided"
    ELSE panel_error(req.panel_types, 1)

-----------------------------------------------------------------------------
(* The state machine: Optimizer::new, then Optimizer::optimize *)

\* usize::MAX and f64::MAX, the starting values of best_panel_count and best_waste
UsizeMax == 2147483647

F64Max == 2147483647

NoResult == [kind |-> "none"]

NoSummary == [total_panels |-> 0]

NoHist ==
    [chosen |-> 0, packed |-> 0, removed |-> 0, aborted |-> FALSE, chosen_removed |-> 0,
     outcomes |-> <<>>]

Init ==
    /\ request \in Requests
    /\ pc = "new"
    /\ expanded_items = <<>>
    /\ si = 0
    /\ ii = 0
    /\ layouts = <<>>
    /\ best_layouts = None
    /\ best_panel_count = UsizeMax
    /\ best_waste = F64Max
    /\ best_summary = NoSummary
    /\ items_used = <<>>
    /\ result = NoResult
    /\ hist = NoHist

\* Optimizer::new
New ==
    /\ pc = "new"
    /\ IF new_error(request) # ""
       THEN /\ result' = [kind |-> "InvalidInput", message |-> new_error(request)]
            /\ pc' = "done"
       ELSE /\ result' = result
            /\ pc' = "optimize"
    /\ UNCHANGED <<request, expanded_items, si, ii, layouts, best_layouts,
                   best_panel_count, best_waste, best_summary, items_used, hist>>

\* optimize, up to the strategy loop
Start ==
    /\ pc = "optimize"
    /\ expanded_items' = expand_items
    /\ si' = 1
    /\ ii' = 1
    /\ layouts' = <<>>
    /\ best_layouts' = None
    /\ best_panel_count' = UsizeMax
    /\ best_waste' = F64Max
    /\ pc' = IF Len(expand_items) = 0 THEN "reduce" ELSE "bfd"
    /\ UNCHANGED <<request, best_summary, items_used, result, hist>>

\* The strategy loop moves on: the next strategy, or the end of the loop, where
\* best_layouts.ok_or(CannotFitAll)? decides.
AfterStrategy(best) ==
    IF si < NumStrategies
    THEN /\ si' = si + 1
         /\ ii' = 1
         /\ layouts' = <<>>
         /\ pc' = IF Len(expanded_items) = 0 THEN "reduce" ELSE "bfd"
         /\ result' = result
    ELSE /\ si' = si
         /\ ii' = ii
         /\ IF IsSome(best)
            THEN /\ layouts' = best[1]
                 /\ pc' = "backfill"
                 /\ result' = result
            ELSE /\ layouts' = <<>>
                 /\ pc' = "done"
                 /\ result' = [kind |-> "CannotFitAll"]

\* The item of the strategy si was placed (Some(layouts)), or could not be.
AfterItem(placed) ==
    IF IsSome(placed)
    THEN /\ layouts' = placed[1]
         /\ ii' = ii + 1
         /\ pc' = IF ii = Len(expanded_items) THEN "reduce" ELSE "bfd"
         /\ UNCHANGED <<si, result>>
    ELSE AfterStrategy(best_layouts)

\* best_fit_decreasing_optimize: one item of the strategy si
BFDStep ==
    /\ pc = "bfd"
    /\ AfterItem(bfd_place(generate_sort_strategies(expanded_items)[si][ii], layouts))
    /\ hist' = [hist EXCEPT !.packed = Len(layouts'), !.removed = 0, !.aborted = FALSE]
    /\ UNCHANGED <<request, expanded_items, best_layouts, best_panel_count, best_waste,
                   best_summary, items_used>>

\* AfterReduceIteration if a failed iteration were tried again
AfterReduceIteration_retrying(test) ==
    IF IsSome(test)
    THEN /\ layouts' = test[1]
         /\ pc' = "reduce_loop"
         /\ hist' = [hist EXCEPT !.removed = @ + 1]
    ELSE /\ layouts' = layouts
         /\ pc' = IF pc = "reduce" THEN "reduce_loop" ELSE "reduce"
         /\ hist' = hist

\* The iteration emptied a panel (Some(test)): loop on; or it did not: renumber
\* and return.
AfterReduceIteration(test) ==
    IF IsSome(test)
    THEN /\ layouts' = test[1]
         /\ pc' = "reduce_loop"
         /\ hist' = [hist EXCEPT !.removed = @ + 1]
    ELSE /\ layouts' = renumber_panels(layouts)
         /\ pc' = "select"
         /\ hist' = [hist EXCEPT !.aborted = TRUE]

\* try_reduce_panels: the early return, or one iteration of its loop (with the
\* renumbering when the loop ends)
ReduceStep ==
    /\ pc \in {"reduce", "reduce_loop"}
    /\ IF Len(layouts) <= 1
       THEN /\ layouts' = IF pc = "reduce" THEN layouts ELSE renumber_panels(layouts)
            /\ pc' = "select"
            /\ hist' = hist
       ELSE AfterReduceIteration(reduce_iteration(layouts, expanded_items))
    /\ UNCHANGED <<request, expanded_items, si, ii, best_layouts, best_panel_count,
                   best_waste, best_summary, items_used, result>>

\* What a strategy came to: its number, panel_count and waste after the
\* reduction pass.
Outcome(strategy, panel_count, waste) ==
    [strategy |-> strategy, panel_count |-> panel_count, waste |-> waste]

\* The strategy's layouts replace the best so far, or do not.
Keep(better, panel_count, waste) ==
    /\ best_layouts' = IF better THEN Some(layouts) ELSE best_layouts
    /\ best_panel_count' = IF better THEN panel_count ELSE best_panel_count
    /\ best_waste' = IF better THEN waste ELSE best_waste
    /\ hist' = IF better
               THEN [hist EXCEPT !.chosen = si, !.chosen_removed = hist.removed,
                                 !.outcomes = Append(@, Outcome(si, panel_count, waste))]
               ELSE [hist EXCEPT !.outcomes = Append(@, Outcome(si, panel_count, waste))]
    /\ AfterStrategy(IF better THEN Some(layouts) ELSE best_layouts)

\* Compare if a strategy with as many panels never replaced the best so far
Compare_panel_count_only(panel_count, waste) ==
    Keep(panel_count < best_panel_count, panel_count, waste)

Compare(panel_count, waste) ==
    Keep(\/ panel_count < best_panel_count
         \/ panel_count = best_panel_count /\ waste < best_waste,
         panel_count, waste)

\* optimize: compare the strategy's layouts with the best so far
Select ==
    /\ pc = "select"
    /\ Compare(Len(layouts), calculate_summary(layouts).waste_area)
    /\ UNCHANGED <<request, expanded_items, best_summary, items_used>>

\* try_add_optional_items, up to its while loop
BackfillFrom(initial_summary) ==
    /\ best_summary' = initial_summary
    /\ pc' = IF below_threshold(initial_summary) \/ Len(optional_items_pool) = 0
             THEN "output" ELSE "backfill_loop"

BackfillStart ==
    /\ pc = "backfill"
    /\ BackfillFrom(calculate_summary(layouts))
    /\ items_used' = <<>>
    /\ UNCHANGED <<request, expanded_items, si, ii, layouts, best_layouts,
                   best_panel_count, best_waste, result, hist>>

\* AfterPass if a committed item's id were not pushed to items_used
AfterPass_unrecorded(committed) ==
    IF IsSome(committed)
    THEN /\ layouts' = committed[1].layouts
         /\ best_summary' = calculate_summary(committed[1].layouts)
         /\ items_used' = items_used
         /\ pc' = IF made_progress(committed) THEN "backfill_loop" ELSE "output"
    ELSE /\ pc' = "output"
         /\ UNCHANGED <<layouts, best_summary, items_used>>

\* try_add_optional_items: one pass of the while loop
\* The pass committed an optional item (made_progress), or ended the loop.
AfterPass(committed) ==
    IF IsSome(committed)
    THEN /\ layouts' = committed[1].layouts
         /\ best_summary' = calculate_summary(committed[1].layouts)
         /\ items_used' = Append(items_used, committed[1].id)
         /\ pc' = IF made_progress(committed) THEN "backfill_loop" ELSE "output"
    ELSE /\ pc' = "output"
         /\ UNCHANGED <<layouts, best_summary, items_used>>

BackfillPass ==
    /\ pc = "backfill_loop"
    /\ AfterPass(backfill_pass(optional_items_pool, 1, 1, layouts, best_summary))
    /\ UNCHANGED <<request, expanded_items, si, ii, best_layouts, best_panel_count,
                   best_waste, result, hist>>

\* optimize: unused areas, panel counts and summary of the final layouts
Return(final_layouts) ==
    /\ layouts' = final_layouts
    /\ result' = [kind |-> "Ok",
                  panels_required |-> count_panels(final_layouts),
                  layouts |-> final_layouts,
                  summary |-> calculate_summary(final_layouts),
                  optional_items_used |-> items_used]

Output ==
    /\ pc = "output"
    /\ Return([k \in 1..Len(layouts) |->
                  [layouts[k] EXCEPT !.unused_areas = compute_output_unused_areas(layouts[k])]])
    /\ pc' = "done"
    /\ UNCHANGED <<request, expanded_items, si, ii, best_layouts, best_panel_count,
                   best_waste, best_summary, items_used, hist>>

Next ==
    \/ New
    \/ Start
    \/ BFDStep
    \/ ReduceStep
    \/ Select
    \/ BackfillStart
    \/ BackfillPass
    \/ Output

Spec == Init /\ [][Next]_vars

\* optimize is one sequential call: it keeps taking steps until it has returned.
\* This is weak fairness of Next, WF_vars(Next), with ENABLED <<Next>>_vars
\* written out as ~Returned (every program point but the return has a step).
FairSpec == Spec /\ ([]<>(pc = "done") \/ []<><<Next>>_vars)

-----------------------------------------------------------------------------
(* What the properties read off a state *)

Returned == pc = "done"

Succeeded == pc = "done" /\ result.kind = "Ok"

\* The (layout, placement) index pairs of a list of layouts
Positions(lays) ==
    UNION { { <<l, k>> : k \in 1..Len(lays[l].placements) } : l \in 1..Len(lays) }

PlacementAt(lays, pos) == lays[pos[1]].placements[pos[2]]

CountPlaced(lays, id) ==
    Cardinality({pos \in Positions(lays) : PlacementAt(lays, pos).item_id = id})

CountExpanded(id) ==
    Cardinality({k \in 1..Len(expanded_items) : expanded_items[k].id = id})

CountUsed(used, id) == Cardinality({k \in 1..Len(used) : used[k] = id})

ExpandedIds == {expanded_items[k].id : k \in 1..Len(expanded_items)}

PlacedIds(lays) == {PlacementAt(lays, pos).item_id : pos \in Positions(lays)}

RECURSIVE SumOver(_, _)
SumOver(f, S) ==
    IF S = {} THEN 0
    ELSE LET x == CHOOSE y \in S : TRUE IN f[x] + SumOver(f, S \ {x})

-----------------------------------------------------------------------------
(* C1 *)

\* C1 as stated: on success every expanded item (with the id expand_items gave
\* it) is the item_id of exactly one placement across all returned layouts.
C1_EachExpandedItemPlacedOnce ==
    Succeeded =>
        \A k \in 1..Len(expanded_items) :
            CountPlaced(result.layouts, expanded_items[k].id) = 1

\* C1 amended: on success, for every id, the number of placements carrying that
\* item_id equals the number of expanded items with that id plus the number of
\* times the id occurs in optional_items_used; hence an expanded item whose id no
\* other expanded item and no used optional item shares is the item_id of exactly
\* one placement.
C1_PlacementsMatchExpandedItems ==
    Succeeded =>
        /\ \A id \in ExpandedIds \cup PlacedIds(result.layouts) :
               CountPlaced(result.layouts, id)
                   = CountExpanded(id) + CountUsed(result.optional_items_used, id)
        /\ \A k \in 1..Len(expanded_items) :
               (/\ CountExpanded(expanded_items[k].id) = 1
                /\ CountUsed(result.optional_items_used, expanded_items[k].id) = 0)
               => CountPlaced(result.layouts, expanded_items[k].id) = 1

\* A success with a line of quantity 2, at least three expanded items, two
\* panels, and a panel removed by the reduction pass on the way.
C1_Witness ==
    /\ Succeeded
    /\ \E k \in 1..Len(request.items) : request.items[k].quantity > 1
    /\ Len(expanded_items) >= 3
    /\ Len(result.layouts) >= 2
    /\ hist.chosen_removed > 0

-----------------------------------------------------------------------------
(* C2 *)

\* p, with cut_width added on its right and top, overlaps the rectangle of q by
\* more than the 0.5 tolerance in both directions.
KerfOverlap(p, q) ==
    /\ Min(p.x + p.width + request.cut_width, q.x + q.width) - Max(p.x, q.x) > HalfMm
    /\ Min(p.y + p.height + request.cut_width, q.y + q.height) - Max(p.y, q.y) > HalfMm

\* C2: in every returned layout, for any two distinct placements p and q of one
\* panel, p expanded by the kerf on its right and top does not overlap q beyond
\* the tolerance, whichever of the two was placed first.
C2_NoOverlapAfterKerfExpansion ==
    Succeeded =>
        \A l \in 1..Len(result.layouts) :
            \A i, j \in 1..Len(result.layouts[l].placements) :
                i # j => ~KerfOverlap(result.layouts[l].placements[i],
                                      result.layouts[l].placements[j])

\* A returned panel cut with a kerf that holds at least three pieces, one of
\* them rotated.
C2_Witness ==
    /\ Succeeded
    /\ request.cut_width > 0
    /\ \E l \in 1..Len(result.layouts) :
           /\ Len(result.layouts[l].placements) >= 3
           /\ \E k \in 1..Len(result.layouts[l].placements) :
                  result.layouts[l].placements[k].rotated

-----------------------------------------------------------------------------
(* C3 *)

InsideUsableArea(p, layout) ==
    /\ p.x >= layout.trimming
    /\ p.y >= layout.trimming
    /\ p.x + p.width <= layout.width - layout.trimming
    /\ p.y + p.height <= layout.height - layout.trimming

\* C3: every placement of every returned layout, required or optional, lies
\* inside the usable area of the layout's own width, height and trimming.
C3_PlacementsInsideUsableArea ==
    Succeeded =>
        \A pos \in Positions(result.layouts) :
            InsideUsableArea(PlacementAt(result.layouts, pos), result.layouts[pos[1]])

\* A returned panel with trimming that holds a backfilled optional item and a
\* placement that is not at the trimming corner.
C3_Witness ==
    /\ Succeeded
    /\ result.optional_items_used # <<>>
    /\ \E l \in 1..Len(result.layouts) :
           /\ result.layouts[l].trimming > 0
           /\ \E k \in 1..Len(result.layouts[l].placements) :
                  /\ result.layouts[l].placements[k].x > result.layouts[l].trimming
                  /\ result.layouts[l].placements[k].item_id
                         = result.optional_items_used[1]

-----------------------------------------------------------------------------
(* C4 *)

FitsDims(w, h, usable_width, usable_height) == w <= usable_width /\ h <= usable_height

\* The item fits the usable area of some panel type, in one of the two panel
\* orientations, as it is or (when it may rotate) rotated.
FitsSomePanel(item) ==
    \E t \in 1..Len(request.panel_types) :
        LET usable_width  == request.panel_types[t].width - 2 * request.panel_types[t].trimming
            usable_height == request.panel_types[t].height - 2 * request.panel_types[t].trimming
        IN  \/ FitsDims(item.width, item.height, usable_width, usable_height)
            \/ FitsDims(item.width, item.height, usable_height, usable_width)
            \/ /\ item.can_rotate
               /\ \/ FitsDims(item.height, item.width, usable_width, usable_height)
                  \/ FitsDims(item.height, item.width, usable_height, usable_width)

\* C4: optimize returns CannotFitAll, and no layouts, exactly when some expanded
\* item fits no panel type in any orientation; otherwise it returns a result in
\* which all expanded items are placed.
C4_CannotFitAllExactlyWhenAnItemFitsNowhere ==
    (Returned /\ result.kind # "InvalidInput") =>
        /\ result.kind = "CannotFitAll"
               <=> \E k \in 1..Len(expanded_items) : ~FitsSomePanel(expanded_items[k])
        /\ result.kind = "CannotFitAll" => DOMAIN result = {"kind"}
        /\ result.kind # "CannotFitAll" =>
               /\ result.kind = "Ok"
               /\ \A k \in 1..Len(expanded_items) :
                      CountPlaced(result.layouts, expanded_items[k].id) >= 1
               /\ Cardinality(Positions(result.layouts))
                      = Len(expanded_items) + Len(result.optional_items_used)

\* CannotFitAll returned although another item of the request fits a panel.
C4_Witness ==
    /\ Returned
    /\ result.kind = "CannotFitAll"
    /\ \E k \in 1..Len(expanded_items) : FitsSomePanel(expanded_items[k])
    /\ \E k \in 1..Len(expanded_items) : ~FitsSomePanel(expanded_items[k])

-----------------------------------------------------------------------------
(* C5 *)

InvalidRequest(req) ==
    \/ Len(req.panel_types) = 0
    \/ Len(req.items) = 0
    \/ \E t \in 1..Len(req.panel_types) :
           \/ req.panel_types[t].trimming < 0
           \/ req.panel_types[t].width - 2 * req.panel_types[t].trimming <= 0
           \/ req.panel_types[t].height - 2 * req.panel_types[t].trimming <= 0

\* C5: once Optimizer::new has run on a request with no panel types, no items, a
\* negative trimming or a trimming that leaves no usable area, it has returned
\* InvalidInput, and nothing was expanded or packed.
C5_InvalidInputRejected ==
    (pc # "new" /\ InvalidRequest(request)) =>
        /\ pc = "done"
        /\ result.kind = "InvalidInput"
        /\ expanded_items = <<>>
        /\ layouts = <<>>
        /\ best_layouts = None

\* InvalidInput returned for a request with items whose first panel type is
\* usable and whose second has a negative trimming.
C5_Witness ==
    /\ Returned
    /\ result.kind = "InvalidInput"
    /\ Len(request.items) > 0
    /\ Len(request.panel_types) = 2
    /\ request.panel_types[1].trimming >= 0
    /\ request.panel_types[2].trimming < 0

-----------------------------------------------------------------------------
(* C6 *)

LayoutsOfType(lays, t) == {l \in 1..Len(lays) : lays[l].panel_type_id = t}

\* C6: on success panels_required[t] is the number of layouts of type t (and
\* every layout's type has an entry), and total_panels is both the number of
\* layouts and the sum of the panels_required values.
C6_PanelCountsAgree ==
    Succeeded =>
        /\ \A l \in 1..Len(result.layouts) :
               result.layouts[l].panel_type_id \in DOMAIN result.panels_required
        /\ \A t \in DOMAIN result.panels_required :
               result.panels_required[t] = Cardinality(LayoutsOfType(result.layouts, t))
        /\ result.summary.total_panels = Len(result.layouts)
        /\ result.summary.total_panels
               = SumOver(result.panels_required, DOMAIN result.panels_required)

\* A success using two panel types, one of them for at least two panels.
C6_Witness ==
    /\ Succeeded
    /\ Cardinality(DOMAIN result.panels_required) >= 2
    /\ \E t \in DOMAIN result.panels_required : result.panels_required[t] >= 2

-----------------------------------------------------------------------------
(* C7 *)

\* C7: on success, the layouts of each panel type carry the panel numbers 1, 2,
\* ..., k in the order they appear, whether or not the reduction pass removed
\* panels.
C7_PanelNumbersContiguous ==
    Succeeded =>
        \A l \in 1..Len(result.layouts) :
            result.layouts[l].panel_number
                = Cardinality({j \in 1..l : result.layouts[j].panel_type_id
                                               = result.layouts[l].panel_type_id})

\* A success whose layouts come from a strategy in which the reduction pass
\* removed a panel and left at least two.
C7_Witness ==
    /\ Succeeded
    /\ hist.chosen_removed > 0
    /\ Len(result.layouts) >= 2

-----------------------------------------------------------------------------
(* C8 *)

PanelArea(lays) ==
    SumSeq([l \in 1..Len(lays) |-> lays[l].width * lays[l].height], 1)

RECURSIVE PlacedAreaOver(_, _)
PlacedAreaOver(lays, S) ==
    IF S = {} THEN 0
    ELSE LET pos == CHOOSE q \in S : TRUE
         IN  PlacementAt(lays, pos).width * PlacementAt(lays, pos).height
             + PlacedAreaOver(lays, S \ {pos})

PlacedArea(lays) == PlacedAreaOver(lays, Positions(lays))

\* C8: on success total_area is the summed width*height of the layouts,
\* used_area the summed width*height of all placements (backfilled ones
\* included), and waste_area their difference.
C8_SummaryAreas ==
    Succeeded =>
        /\ result.summary.total_area = PanelArea(result.layouts)
        /\ result.summary.used_area = PlacedArea(result.layouts)
        /\ result.summary.waste_area
               = result.summary.total_area - result.summary.used_area

\* A success with two panels and a backfilled optional item.
C8_Witness ==
    /\ Succeeded
    /\ Len(result.layouts) >= 2
    /\ result.optional_items_used # <<>>

-----------------------------------------------------------------------------
(* C9 *)

RemnantAccounting(summary) ==
    /\ IsSome(summary.reusable_remnant_area)
    /\ IsSome(summary.actual_waste_area)
    /\ 0 <= summary.reusable_remnant_area[1]
    /\ summary.reusable_remnant_area[1] <= summary.waste_area
    /\ summary.actual_waste_area[1]
           = summary.waste_area - summary.reusable_remnant_area[1]

\* C9: with min_reusable_remnant_size set, the summary of every set of layouts
\* the engine reaches (while packing, reducing and backfilling, and in the
\* result) has 0 <= reusable_remnant_area <= waste_area and actual_waste_area =
\* waste_area - reusable_remnant_area.
C9_RemnantWithinWaste ==
    (IsSome(request.min_reusable_remnant_size) /\ new_error(request) = "") =>
        /\ RemnantAccounting(calculate_summary(layouts))
        /\ pc = "backfill_loop" => RemnantAccounting(best_summary)
        /\ Succeeded => RemnantAccounting(result.summary)

\* A result whose reusable remnant area is positive and smaller than the waste.
C9_Witness ==
    /\ Succeeded
    /\ IsSome(request.min_reusable_remnant_size)
    /\ result.summary.reusable_remnant_area[1] > 0
    /\ result.summary.reusable_remnant_area[1] < result.summary.waste_area
    /\ result.summary.actual_waste_area[1] > 0

-----------------------------------------------------------------------------
(* C10 *)

\* The placement stores the item's dimensions, swapped exactly when rotated.
StoredAsPlaced(p, item) ==
    /\ ~p.rotated => (p.width = item.width /\ p.height = item.height)
    /\ p.rotated => (p.width = item.height /\ p.height = item.width)

\* C10: on success every placement of a required item stores the request item's
\* (width, height) when rotated is false and its (height, width) when rotated is
\* true, whichever strategy produced the chosen layouts.  (Read for placements
\* whose id belongs to one expanded item only and to no used optional item.)
C10_StoredDimensionsFollowRotatedFlag ==
    Succeeded =>
        \A pos \in Positions(result.layouts) :
            \A k \in 1..Len(expanded_items) :
                (/\ PlacementAt(result.layouts, pos).item_id = expanded_items[k].id
                 /\ CountExpanded(expanded_items[k].id) = 1
                 /\ CountUsed(result.optional_items_used, expanded_items[k].id) = 0)
                => StoredAsPlaced(PlacementAt(result.layouts, pos), expanded_items[k])

\* A success whose layouts come from one of the three strategies that normalize
\* the orientation of rotatable items, the request holding such an item.
C10_Witness ==
    /\ Succeeded
    /\ hist.chosen > 3
    /\ \E k \in 1..Len(expanded_items) :
           /\ expanded_items[k].can_rotate
           /\ expanded_items[k].width # expanded_items[k].height

-----------------------------------------------------------------------------
(* C11 *)

\* The placement is the item as requested: not rotated, same width and height.
FixedAsRequested(p, item) ==
    ~p.rotated /\ p.width = item.width /\ p.height = item.height

\* The expanded items carrying id can each be given a placement of their own
\* with that item_id such that every one with can_rotate = false is stored as
\* requested.
FixedItemsAsRequested(lays, id) ==
    \E f \in [ {k \in 1..Len(expanded_items) : expanded_items[k].id = id}
               -> {pos \in Positions(lays) : PlacementAt(lays, pos).item_id = id} ] :
        /\ \A a, b \in DOMAIN f : a # b => f[a] # f[b]
        /\ \A k \in DOMAIN f :
               ~expanded_items[k].can_rotate
               => FixedAsRequested(PlacementAt(lays, f[k]), expanded_items[k])

\* The required items with can_rotate = false whose id no other expanded item
\* and no backfilled optional item carries are stored as requested.
OwnIdFixedItemsAsRequested(lays, used) ==
    \A pos \in Positions(lays) :
        \A k \in 1..Len(expanded_items) :
            (/\ PlacementAt(lays, pos).item_id = expanded_items[k].id
             /\ ~expanded_items[k].can_rotate
             /\ CountExpanded(expanded_items[k].id) = 1
             /\ CountUsed(used, expanded_items[k].id) = 0)
            => FixedAsRequested(PlacementAt(lays, pos), expanded_items[k])

\* C11 as stated: after the BFD pass, during and after the panel-reduction pass
\* and in the final result, every required item with can_rotate = false has a
\* placement with rotated = false and the requested width and height (whatever
\* ids the request uses).
C11_FixedItemsNeverRotated ==
    /\ pc \in {"reduce", "reduce_loop", "select"}
       => \A id \in ExpandedIds : FixedItemsAsRequested(layouts, id)
    /\ Succeeded => \A id \in ExpandedIds : FixedItemsAsRequested(result.layouts, id)

\* C11 restricted to ids of their own: the same for every required item with
\* can_rotate = false whose id is carried by no other expanded item and by no
\* backfilled optional item.
C11_FixedItemsWithOwnIdNeverRotated ==
    /\ pc \in {"reduce", "reduce_loop", "select"}
       => OwnIdFixedItemsAsRequested(layouts, <<>>)
    /\ Succeeded => OwnIdFixedItemsAsRequested(result.layouts, result.optional_items_used)

\* A success whose layouts went through a reduction that emptied a panel, the
\* request holding a non-square item with can_rotate = false and an id of its
\* own.
C11_Witness ==
    /\ Succeeded
    /\ hist.chosen_removed > 0
    /\ \E k \in 1..Len(expanded_items) :
           /\ ~expanded_items[k].can_rotate
           /\ expanded_items[k].width # expanded_items[k].height
           /\ CountExpanded(expanded_items[k].id) = 1

-----------------------------------------------------------------------------
(* C12 *)

\* The request holds a single item of quantity 1 whose width and height are the
\* usable width and height of panel type t.
SingleItemFillsUsableArea(t) ==
    /\ Len(request.items) = 1
    /\ request.items[1].quantity = 1
    /\ t \in 1..Len(request.panel_types)
    /\ request.panel_types[t].trimming >= 0
    /\ request.items[1].width
           = request.panel_types[t].width - (request.panel_types[t].trimming * 2)
    /\ request.items[1].height
           = request.panel_types[t].height - (request.panel_types[t].trimming * 2)

\* C12 as stated: for a single item of quantity 1 exactly equal to the usable
\* area of a panel type, optimize returns one panel and summary.waste_area = 0.
C12_ExactFitOnePanelZeroWaste ==
    (Returned /\ \E t \in 1..Len(request.panel_types) : SingleItemFillsUsableArea(t))
    => /\ result.kind = "Ok"
       /\ result.summary.total_panels = 1
       /\ result.summary.waste_area = 0

\* C12 amended: for such a request optimize returns one panel holding one
\* placement, of the item's area; waste_area is the whole area of that panel
\* minus the item's area, which is zero exactly when the panel has no trimming
\* and the item's area, and in particular when the panel type the item fills
\* is the only one and has trimming 0.
C12_ExactFitOnePanelWasteIsMargin ==
    (Returned /\ \E t \in 1..Len(request.panel_types) : SingleItemFillsUsableArea(t))
    => /\ result.kind = "Ok"
       /\ result.summary.total_panels = 1
       /\ Len(result.layouts) = 1
       /\ Len(result.layouts[1].placements) = 1
       /\ result.summary.used_area = request.items[1].width * request.items[1].height
       /\ result.summary.waste_area
              = (result.layouts[1].width * result.layouts[1].height)
                - (request.items[1].width * request.items[1].height)
       /\ (result.summary.waste_area = 0) <=>
              (/\ result.layouts[1].trimming = 0
               /\ result.layouts[1].width * result.layouts[1].height
                      = request.items[1].width * request.items[1].height)
       /\ (Len(request.panel_types) = 1 /\ request.panel_types[1].trimming = 0)
              => result.summary.waste_area = 0

\* A request with one panel type without trimming and a single item that fills
\* it has returned one panel without waste.
C12_Witness ==
    /\ Succeeded
    /\ Len(request.panel_types) = 1
    /\ request.panel_types[1].trimming = 0
    /\ SingleItemFillsUsableArea(1)
    /\ result.summary.total_panels = 1
    /\ result.summary.waste_area = 0

-----------------------------------------------------------------------------
(* C13 *)

\* The outcome o is the best of the outcomes: fewest panels, and least waste
\* among those with as few.
BestOutcome(o, outcomes) ==
    \A k \in 1..Len(outcomes) :
        /\ o.panel_count <= outcomes[k].panel_count
        /\ outcomes[k].panel_count = o.panel_count => o.waste <= outcomes[k].waste

-----------------------------------------------------------------------------
(* C14 *)

\* try_add_optional_items is running, or has returned to optimize
InOrAfterBackfill == pc \in {"backfill", "backfill_loop", "output"}

\* C14: while try_add_optional_items runs and when it has returned, the layouts
\* are as many as the layouts it received (best_layouts, the layouts optimize
\* chose), whatever number of optional items has been committed; so is the
\* returned result.
C14_BackfillKeepsLayoutCount ==
    /\ InOrAfterBackfill
       => (IsSome(best_layouts) /\ Len(layouts) = Len(best_layouts[1]))
    /\ Succeeded
       => (IsSome(best_layouts) /\ Len(result.layouts) = Len(best_layouts[1]))

\* A returned result of two panels or more with at least two optional items
\* committed by backfill.
C14_Witness ==
    /\ Succeeded
    /\ Len(result.optional_items_used) >= 2
    /\ Len(result.layouts) >= 2

-----------------------------------------------------------------------------
(* C15 *)

\* The layouts are those of others, field by field, but for the unused_areas
\* that optimize fills in at the end.
SameLayouts(lays, others) ==
    /\ Len(lays) = Len(others)
    /\ \A k \in 1..Len(lays) :
           [lays[k] EXCEPT !.unused_areas = <<>>] = [others[k] EXCEPT !.unused_areas = <<>>]

\* Some optional item of the pool can be placed on a layout of its panel type
\* and lowers the effective waste of these layouts.
SomeOptionalItemCommits(lays) ==
    \E e \in 1..Len(optional_items_pool) :
        \E l \in 1..Len(lays) :
            IsSome(try_entry_on(optional_items_pool[e], l, lays, calculate_summary(lays)))

\* The summary's effective waste percentage is at most 8.0.
EffectiveWasteAtMost8Percent(summary) ==
    IF IsSome(request.min_reusable_remnant_size)
    THEN summary.actual_waste_percentage[1].num <= 8 * summary.actual_waste_percentage[1].den
    ELSE summary.waste_percentage.num <= 8 * summary.waste_percentage.den

\* C15: if the effective waste percentage of the layouts optimize chose
\* (actual_waste_percentage when min_reusable_remnant_size is set, otherwise
\* waste_percentage) is <= 8.0, try_add_optional_items returns them unchanged
\* with no optional item used, and so does the result.
C15_BelowThresholdSkipsBackfill ==
    /\ (pc = "output" /\ EffectiveWasteAtMost8Percent(calculate_summary(best_layouts[1])))
       => (layouts = best_layouts[1] /\ items_used = <<>>)
    /\ (Succeeded /\ EffectiveWasteAtMost8Percent(calculate_summary(best_layouts[1])))
       => /\ result.optional_items_used = <<>>
          /\ SameLayouts(result.layouts, best_layouts[1])

\* A result returned with an effective waste percentage of at most 8.0 although
\* an optional item of the pool could have been placed and would have lowered
\* the effective waste.
C15_Witness ==
    /\ Succeeded
    /\ EffectiveWasteAtMost8Percent(calculate_summary(best_layouts[1]))
    /\ SomeOptionalItemCommits(best_layouts[1])

-----------------------------------------------------------------------------
(* C16 *)

\* The total effective waste area of a list of layouts: actual_waste_area when
\* min_reusable_remnant_size is set, otherwise waste_area.
EffectiveWasteArea(lays) ==
    IF IsSome(request.min_reusable_remnant_size)
    THEN calculate_summary(lays).actual_waste_area[1]
    ELSE calculate_summary(lays).waste_area

\* The optional item of pool entry e can be placed on layout l of its panel
\* type, but the layouts with that placement have no lower effective waste.
CandidateDiscarded(lays, e, l) ==
    /\ lays[l].panel_type_id = optional_items_pool[e].panel_type_id
    /\ IsSome(try_place_item(optional_to_item(optional_items_pool[e].item), lays[l]))
    /\ EffectiveWasteArea(
           push_placement(lays, l,
               try_place_item(optional_to_item(optional_items_pool[e].item), lays[l])[1]))
       >= EffectiveWasteArea(lays)

\* C16: every step of the backfill loop either commits one optional placement,
\* and then the total effective waste area is strictly lower than before the
\* commit, or commits nothing, and then the layouts and the list of used
\* optional items are unchanged (a candidate that does not lower the effective
\* waste is not in them).
C16_CommitsLowerEffectiveWaste ==
    [][ pc = "backfill_loop" =>
          \/ /\ layouts' = layouts
             /\ items_used' = items_used
          \/ /\ Len(items_used') = Len(items_used) + 1
             /\ Cardinality(Positions(layouts')) = Cardinality(Positions(layouts)) + 1
             /\ EffectiveWasteArea(layouts') < EffectiveWasteArea(layouts) ]_vars

\* The backfill loop has committed an optional item and stands on layouts where
\* a candidate placement of an optional item exists that does not lower the
\* effective waste.
C16_Witness ==
    /\ pc = "backfill_loop"
    /\ Len(items_used) >= 1
    /\ \E e \in 1..Len(optional_items_pool) :
           \E l \in 1..Len(layouts) : CandidateDiscarded(layouts, e, l)

-----------------------------------------------------------------------------
(* C17 *)

\* C17: when try_add_optional_items has returned (layouts, items_used) for the
\* layouts optimize chose, applying it to the layouts it returned gives the same
\* layouts and an empty list of used optional items.
C17_BackfillIdempotent ==
    pc = "output" =>
        /\ try_add_optional_items(best_layouts[1]) = Backfilled(layouts, items_used)
        /\ try_add_optional_items(layouts) = Backfilled(layouts, <<>>)

\* try_add_optional_items has returned with two optional items or more
\* committed, on layouts whose effective waste is still above 8.0 percent, so
\* that a second run enters the loop again.
C17_Witness ==
    /\ pc = "output"
    /\ Len(items_used) >= 2
    /\ ~EffectiveWasteAtMost8Percent(calculate_summary(layouts))

-----------------------------------------------------------------------------
(* C18 *)

\* The x and y coordinates where a largest free region of the layout can begin
\* or end: the borders of the usable area and of the kerf-expanded placements.
EdgesX(layout) ==
    {layout.trimming, layout.width - layout.trimming}
    \cup {layout.placements[k].x : k \in 1..Len(layout.placements)}
    \cup {layout.placements[k].x + layout.placements[k].width + request.cut_width :
              k \in 1..Len(layout.placements)}

EdgesY(layout) ==
    {layout.trimming, layout.height - layout.trimming}
    \cup {layout.placements[k].y : k \in 1..Len(layout.placements)}
    \cup {layout.placements[k].y + layout.placements[k].height + request.cut_width :
              k \in 1..Len(layout.placements)}

\* The region lies inside the usable area and overlaps no kerf-expanded
\* placement.
FreeRegion(layout, region) ==
    /\ region.width > 0
    /\ region.height > 0
    /\ region.x >= layout.trimming
    /\ region.y >= layout.trimming
    /\ region.x + region.width <= layout.width - layout.trimming
    /\ region.y + region.height <= layout.height - layout.trimming
    /\ \A k \in 1..Len(layout.placements) :
           ~overlaps(region, placed_rect(layout.placements[k]))

\* The regions bounded by the edges of the layout.  Every free region lies in a
\* free one of these.
EdgeRegions(layout) ==
    { UnusedArea(x1, y1, x2 - x1, y2 - y1) :
          <<x1, x2, y1, y2>> \in
              { t \in EdgesX(layout) \X EdgesX(layout) \X EdgesY(layout) \X EdgesY(layout) :
                    t[1] < t[2] /\ t[3] < t[4] } }

\* One rectangle of find_unused_areas contains the whole region.
InOneFreeRectangle(layout, region) ==
    \E k \in 1..Len(find_unused_areas(layout)) :
        contains(find_unused_areas(layout)[k], region, 0)

\* try_place_item returns a placement for an item of the size of the region.
Placeable(layout, region) ==
    IsSome(try_place_item(Item("probe", region.width, region.height, 1, FALSE), layout))

LayoutsInHand == IF pc \in {"new", "optimize", "done"} THEN <<>> ELSE layouts

\* The region is larger than the slivers find_unused_areas drops at its end
\* (width or height of 0.5 or less).
WorthKeeping(region) == region.width > HalfMm /\ region.height > HalfMm

\* C18: for every layout, every region inside the usable area that overlaps no
\* kerf-expanded placement (and is wider and higher than 0.5) lies in a single
\* rectangle of find_unused_areas, and try_place_item places an item of its
\* size.
C18_FreeRegionsCovered ==
    \A l \in 1..Len(LayoutsInHand) :
        \A region \in EdgeRegions(LayoutsInHand[l]) :
            (FreeRegion(LayoutsInHand[l], region) /\ WorthKeeping(region))
            => /\ InOneFreeRectangle(LayoutsInHand[l], region)
               /\ Placeable(LayoutsInHand[l], region)

\* A layout of three placements or more, cut with a kerf, with a free region
\* that one rectangle of find_unused_areas contains.
C18_Witness ==
    \E l \in 1..Len(LayoutsInHand) :
        /\ Len(LayoutsInHand[l].placements) >= 3
        /\ request.cut_width > 0
        /\ \E region \in EdgeRegions(LayoutsInHand[l]) :
               /\ FreeRegion(LayoutsInHand[l], region)
               /\ WorthKeeping(region)
               /\ InOneFreeRectangle(LayoutsInHand[l], region)

-----------------------------------------------------------------------------
(* C19 *)

\* cols * rows of w x h items, cut_width apart, in a usable area.
GridCapacity(usable_width, usable_height, w, h) ==
    IF w > usable_width \/ h > usable_height THEN 0
    ELSE ((usable_width + request.cut_width) \div (w + request.cut_width))
         * ((usable_height + request.cut_width) \div (h + request.cut_width))

\* The greater GridCapacity of the two orientations of a panel type.
BestGridCapacity(panel_type, w, h) ==
    Max(GridCapacity(panel_type.width - (panel_type.trimming * 2),
                     panel_type.height - (panel_type.trimming * 2), w, h),
        GridCapacity(panel_type.height - (panel_type.trimming * 2),
                     panel_type.width - (panel_type.trimming * 2), w, h))

\* min_initial_usage, one panel type, and k copies of one non-rotatable item
\* with k <= cols * rows.
GridRequest ==
    /\ request.min_initial_usage
    /\ Len(request.panel_types) = 1
    /\ Len(request.items) = 1
    /\ ~request.items[1].can_rotate
    /\ request.items[1].quantity
           <= BestGridCapacity(request.panel_types[1],
                               request.items[1].width, request.items[1].height)

AllOnOnePanel ==
    /\ result.kind = "Ok"
    /\ result.summary.total_panels = 1
    /\ Len(result.layouts) = 1
    /\ Len(result.layouts[1].placements) = request.items[1].quantity

\* C19 as stated: with min_initial_usage, one panel type and k copies of one
\* non-rotatable item, k <= cols * rows for the better panel orientation,
\* optimize returns exactly one panel holding all k placements.
C19_GridFitsOnePanel ==
    (Returned /\ GridRequest) => AllOnOnePanel

\* C19 amended: the same for an item wider and higher than 0.5.
C19_GridOfItemsAboveHalfMmFitsOnePanel ==
    (/\ Returned
     /\ GridRequest
     /\ request.items[1].width > HalfMm
     /\ request.items[1].height > HalfMm)
    => AllOnOnePanel

\* A returned panel cut with a kerf, inside a trimming margin, holding six
\* copies or more of one item, where the panel as given would hold fewer than
\* the copies and the panel turned holds them.
C19_Witness ==
    /\ Succeeded
    /\ GridRequest
    /\ request.cut_width > 0
    /\ request.panel_types[1].trimming > 0
    /\ request.items[1].quantity >= 6
    /\ request.items[1].quantity
           > GridCapacity(request.panel_types[1].width - (request.panel_types[1].trimming * 2),
                          request.panel_types[1].height - (request.panel_types[1].trimming * 2),
                          request.items[1].width, request.items[1].height)
    /\ AllOnOnePanel

-----------------------------------------------------------------------------
(* C20 *)

\* C20: in every successful result waste_percentage lies in [0, 100], and the
\* summed area of all placements, backfilled optional items included, is at
\* most the summed area of the panels used.
C20_WastePercentageInRange ==
    Succeeded =>
        /\ result.summary.waste_percentage.den > 0
        /\ result.summary.waste_percentage.num >= 0
        /\ result.summary.waste_percentage.num <= 100 * result.summary.waste_percentage.den
        /\ PlacedArea(result.layouts) <= PanelArea(result.layouts)

\* A successful result with backfilled optional items that fills its panels to
\* nine tenths or more without filling them.
C20_Witness ==
    /\ Succeeded
    /\ result.optional_items_used # <<>>
    /\ result.summary.waste_percentage.num > 0
    /\ result.summary.waste_percentage.num <= 10 * result.summary.waste_percentage.den

-----------------------------------------------------------------------------
(* C21 *)

\* The item the BFD pass of strategy si is about to place
bfd_item == generate_sort_strategies(expanded_items)[si][ii]

\* A free rectangle hosts the item in its own orientation or, if it may be
\* rotated, turned.
Hosts(area, item) ==
    \/ item.width <= area.width /\ item.height <= area.height
    \/ item.can_rotate /\ item.height <= area.width /\ item.width <= area.height

HostsAsGiven(area, item) == item.width <= area.width /\ item.height <= area.height

\* The open layouts with a free rectangle that hosts the item
HostingLayouts(item, lays) ==
    { l \in 1..Len(lays) :
        \E k \in 1..Len(find_unused_areas(lays[l])) :
            Hosts(find_unused_areas(lays[l])[k], item) }

\* others is lays with one more placement, of this item, on one of its layouts
CommittedToExisting(item, lays, others) ==
    /\ Len(others) = Len(lays)
    /\ \E l \in 1..Len(lays) :
          /\ \A j \in 1..Len(lays) : j # l => others[j] = lays[j]
          /\ Len(others[l].placements) = Len(lays[l].placements) + 1
          /\ SubSeq(others[l].placements, 1, Len(lays[l].placements)) = lays[l].placements
          /\ others[l].placements[Len(others[l].placements)].item_id = item.id
          /\ [others[l] EXCEPT !.placements = lays[l].placements] = lays[l]

\* C21: in every step of a BFD pass, if some open layout has a free rectangle
\* that hosts the item (as given or, if can_rotate, rotated) the item is
\* committed to an existing layout and the number of layouts stays; a step that
\* opens a panel for the item is a step where no open layout has such a
\* rectangle.
C21_NewPanelOnlyWhenNoneHosts ==
    [][pc = "bfd" =>
          /\ HostingLayouts(bfd_item, layouts) # {} =>
                /\ ii' = ii + 1
                /\ CommittedToExisting(bfd_item, layouts, layouts')
          /\ (ii' = ii + 1 /\ Len(layouts') = Len(layouts) + 1) =>
                HostingLayouts(bfd_item, layouts) = {}]_vars

\* Witness: a BFD pass with two panels open is about to place an item that only
\* the second panel hosts, and only rotated.
C21_Witness ==
    /\ pc = "bfd"
    /\ Len(layouts) = 2
    /\ HostingLayouts(bfd_item, layouts) = {2}
    /\ \A k \in 1..Len(find_unused_areas(layouts[2])) :
          ~HostsAsGiven(find_unused_areas(layouts[2])[k], bfd_item)

-----------------------------------------------------------------------------
(* C22 *)

\* The panel an iteration of the reduction pass targets: the first of those
\* with the smallest summed area of placements.
TargetIdx(lays) ==
    CHOOSE i \in 1..Len(lays) :
        /\ \A j \in 1..Len(lays) : PlacedArea(<<lays[i]>>) <= PlacedArea(<<lays[j]>>)
        /\ \A j \in 1..(i - 1) : PlacedArea(<<lays[j]>>) > PlacedArea(<<lays[i]>>)

PushFit(test, best_fit) == push_placement(test, best_fit[1].idx, best_fit[1].placement)

\* Re-placing the items one after the other on the remaining panels, some item
\* finds no free rectangle that hosts it.
RECURSIVE StrandedFrom(_, _, _)
StrandedFrom(items, test, k) ==
    IF k > Len(items) THEN FALSE
    ELSE IF HostingLayouts(items[k], test) = {} THEN TRUE
    ELSE StrandedFrom(items, PushFit(test, reduce_best_fit(items[k], test)), k + 1)

SomeTargetItemStranded(lays) ==
    StrandedFrom(items_to_place(lays[TargetIdx(lays)], expanded_items),
                 remove_at(lays, TargetIdx(lays)), 1)

\* The same panel with the same placements; panel_number, which
\* renumber_panels reassigns when the pass ends, is left out.
SamePanel(layout, other) ==
    [layout EXCEPT !.panel_number = 0] = [other EXCEPT !.panel_number = 0]

-----------------------------------------------------------------------------
(* C23 *)

\* Two rectangles share interior points.
InteriorsMeet(a, b) ==
    /\ a.x < b.x + b.width
    /\ b.x < a.x + a.width
    /\ a.y < b.y + b.height
    /\ b.y < a.y + a.height

\* The rectangle inner lies within the rectangle outer.
LiesWithin(inner, outer) ==
    /\ outer.x <= inner.x
    /\ outer.y <= inner.y
    /\ inner.x + inner.width <= outer.x + outer.width
    /\ inner.y + inner.height <= outer.y + outer.height

\* The pairs of different unused areas reported for one layout
ReportedPairs(layout) ==
    { pair \in (1..Len(layout.unused_areas)) \X (1..Len(layout.unused_areas)) :
        pair[1] # pair[2] }

-----------------------------------------------------------------------------
(* C24 *)

InReduction == pc \in {"reduce", "reduce_loop"}

\* The reduction pass has emptied at most (panels - 1) of the panels the BFD pass
\* left, and is over once an iteration has failed.
ReductionBounded ==
    /\ (InReduction \/ pc = "select") => hist.removed <= Max(hist.packed - 1, 0)
    /\ (InReduction \/ pc = "select") => hist.removed + Len(layouts) = hist.packed
    /\ InReduction => ~hist.aborted

\* A step of the backfill loop either commits one optional item and stays in the
\* loop, or commits nothing and leaves it.
BackfillEndsWithoutProgress ==
    pc = "backfill_loop" =>
        \/ /\ pc' = "backfill_loop"
           /\ Len(items_used') = Len(items_used) + 1
           /\ layouts' # layouts
        \/ /\ pc' = "output"
           /\ items_used' = items_used
           /\ layouts' = layouts

\* C24: optimize returns on every request; the reduction loop ends after at most
\* (panels - 1) successful evacuations or at the first failed one, and the
\* backfill loop ends with a pass that commits nothing.
C24_OptimizeTerminates ==
    /\ <>Returned
    /\ []ReductionBounded
    /\ [][BackfillEndsWithoutProgress]_vars

\* Witness: optimize has returned a result whose strategy lost a panel in the
\* reduction pass and whose backfill committed two or more optional items.
C24_Witness ==
    /\ Succeeded
    /\ hist.chosen_removed >= 1
    /\ Len(result.optional_items_used) >= 2

-----------------------------------------------------------------------------
(* C25 *)

\* The optional entries of the request: each optional item with the id of the
\* panel type that declares it.
DeclaredEntries ==
    UNION { { [panel_type_id |-> request.panel_types[t].id,
               item |-> request.panel_types[t].optional_items[k]] :
                 k \in 1..Len(request.panel_types[t].optional_items) } :
            t \in 1..Len(request.panel_types) }

\* Entry a comes before entry b: higher priority, or as high and a larger area.
TriedBefore(a, b) ==
    \/ a.item.priority > b.item.priority
    \/ /\ a.item.priority = b.item.priority
       /\ a.item.width * a.item.height > b.item.width * b.item.height

\* The placement is one of the entry's item, as given or turned.
PlacementOf(p, entry) ==
    /\ p.item_id = entry.item.id
    /\ \/ ~p.rotated /\ p.width = entry.item.width /\ p.height = entry.item.height
       \/ /\ p.rotated /\ entry.item.can_rotate
          /\ p.width = entry.item.height /\ p.height = entry.item.width

\* The placement the scorer picks for the entry on layout l of its panel type
\* strictly lowers the effective waste of lays.
WouldLowerWaste(entry, l, lays) ==
    /\ lays[l].panel_type_id = entry.panel_type_id
    /\ IsSome(try_place_item(optional_to_item(entry.item), lays[l]))
    /\ EffectiveWasteArea(
           push_placement(lays, l, try_place_item(optional_to_item(entry.item), lays[l])[1]))
       < EffectiveWasteArea(lays)

\* Some placement of the entry in a free rectangle of layout l of its panel
\* type, the scorer's or another, strictly lowers the effective waste of lays.
SomePlacementWouldLowerWaste(entry, l, lays) ==
    /\ lays[l].panel_type_id = entry.panel_type_id
    /\ \E c \in 1..Len(generate_candidate_placements(optional_to_item(entry.item), lays[l])) :
          EffectiveWasteArea(
              push_placement(lays, l,
                  generate_candidate_placements(optional_to_item(entry.item), lays[l])[c].placement))
          < EffectiveWasteArea(lays)

\* others is lays with one placement of the entry pushed on layout l.
CommitOf(entry, l, lays, others) ==
    /\ Len(others) = Len(lays)
    /\ \A j \in 1..Len(lays) : j # l => others[j] = lays[j]
    /\ Len(others[l].placements) = Len(lays[l].placements) + 1
    /\ PlacementOf(others[l].placements[Len(others[l].placements)], entry)

\* C25 as stated: whenever the backfill loop commits an optional entry, the
\* placement is on a layout whose panel_type_id is the type declaring the entry,
\* and in the layouts just before the commit no entry that comes before it
\* (priority descending, then area descending) had, on any layout of its own
\* panel type, a placement that strictly lowers the effective waste.
C25_NoEarlierEntryCouldLowerWaste ==
    [][(pc = "backfill_loop" /\ Len(items_used') = Len(items_used) + 1) =>
          \E entry \in DeclaredEntries :
              \E l \in 1..Len(layouts) :
                  /\ CommitOf(entry, l, layouts, layouts')
                  /\ layouts[l].panel_type_id = entry.panel_type_id
                  /\ items_used'[Len(items_used')] = entry.item.id
                  /\ \A earlier \in DeclaredEntries :
                        TriedBefore(earlier, entry) =>
                            \A k \in 1..Len(layouts) :
                                ~SomePlacementWouldLowerWaste(earlier, k, layouts)]_vars

\* C25 amended: whenever the backfill loop commits an optional entry, the
\* placement is on a layout whose panel_type_id is the type declaring the entry,
\* and in the layouts just before the commit no entry that comes before it
\* (priority descending, then area descending) had, on any layout of its own
\* panel type, a placement picked by the scorer that strictly lowers the
\* effective waste.
C25_BackfillInPriorityOrder ==
    [][(pc = "backfill_loop" /\ Len(items_used') = Len(items_used) + 1) =>
          \E entry \in DeclaredEntries :
              \E l \in 1..Len(layouts) :
                  /\ CommitOf(entry, l, layouts, layouts')
                  /\ layouts[l].panel_type_id = entry.panel_type_id
                  /\ items_used'[Len(items_used')] = entry.item.id
                  /\ \A earlier \in DeclaredEntries :
                        TriedBefore(earlier, entry) =>
                            \A k \in 1..Len(layouts) :
                                ~WouldLowerWaste(earlier, k, layouts)]_vars

\* Witness: the backfill loop, restarted after a commit, stands on layouts where
\* an entry that fits a layout of its type comes first in the order but its
\* placement does not lower the effective waste, and a later entry is committed.
C25_Witness ==
    /\ pc = "backfill_loop"
    /\ Len(items_used) >= 1
    /\ CandidateDiscarded(layouts, 1, 1)
    /\ \E e \in 2..Len(optional_items_pool) :
          /\ TriedBefore(optional_items_pool[1], optional_items_pool[e])
          /\ \E l \in 1..Len(layouts) : WouldLowerWaste(optional_items_pool[e], l, layouts)

-----------------------------------------------------------------------------
(* C26 *)

\* The usable area of a layout, as a rectangle
UsableArea(layout) ==
    UnusedArea(layout.trimming, layout.trimming,
               layout.width - (layout.trimming * 2), layout.height - (layout.trimming * 2))

\* The rectangle of a placement with the kerf on its right and top
KerfExpanded(p) ==
    UnusedArea(p.x, p.y, p.width + request.cut_width, p.height + request.cut_width)

\* C26: in every successful result every rectangle reported as unused area of a
\* layout lies inside the layout's usable area and shares no interior point
\* with the kerf-expanded rectangle of any placement of that layout.
C26_ReportedUnusedAreasAreFree ==
    Succeeded =>
        \A l \in 1..Len(result.layouts) :
            \A k \in 1..Len(result.layouts[l].unused_areas) :
                /\ LiesWithin(result.layouts[l].unused_areas[k], UsableArea(result.layouts[l]))
                /\ \A j \in 1..Len(result.layouts[l].placements) :
                      ~InteriorsMeet(result.layouts[l].unused_areas[k],
                                     KerfExpanded(result.layouts[l].placements[j]))

\* A successful result reports, for a panel, a rectangle that is none of the
\* panel's free rectangles (it was merged out of several) and that covers
\* part of a placement narrower than the alignment tolerance.
C26_Witness ==
    /\ Succeeded
    /\ \E l \in 1..Len(result.layouts) :
          \E k \in 1..Len(result.layouts[l].unused_areas) :
              /\ \A f \in 1..Len(find_unused_areas(result.layouts[l])) :
                    find_unused_areas(result.layouts[l])[f] # result.layouts[l].unused_areas[k]
              /\ \E j \in 1..Len(result.layouts[l].placements) :
                    /\ result.layouts[l].placements[j].width < OneMm
                    /\ InteriorsMeet(result.layouts[l].unused_areas[k],
                                     KerfExpanded(result.layouts[l].placements[j]))

-----------------------------------------------------------------------------
(* C27 *)

\* No two placements of one layout of lays share an interior point, taking
\* the rectangles as stored (without kerf).
PlacementsDisjoint(lays) ==
    \A l \in 1..Len(lays) :
        \A i, j \in 1..Len(lays[l].placements) :
            i < j => ~InteriorsMeet(lays[l].placements[i], lays[l].placements[j])

\* The placements p and q lie side by side with no kerf between them.
SideBySide(p, q) ==
    /\ p.x + p.width = q.x
    /\ p.y < q.y + q.height
    /\ q.y < p.y + p.height

\* C27: at every point of optimize (during and after the BFD passes, the
\* reduction pass and backfill) the placements of each panel of the layouts
\* in hand, of the best layouts kept so far and of the returned result have
\* pairwise disjoint interiors.
C27_PlacementsHaveDisjointInteriors ==
    /\ PlacementsDisjoint(layouts)
    /\ best_layouts # None => PlacementsDisjoint(best_layouts[1])
    /\ Succeeded => PlacementsDisjoint(result.layouts)

\* A returned result cut without kerf, with a backfilled optional item, on
\* which two placements lie side by side.
C27_Witness ==
    /\ Succeeded
    /\ request.cut_width = 0
    /\ result.optional_items_used # <<>>
    /\ \E l \in 1..Len(result.layouts) :
          \E i, j \in 1..Len(result.layouts[l].placements) :
              SideBySide(result.layouts[l].placements[i], result.layouts[l].placements[j])

-----------------------------------------------------------------------------
(* C28 *)

\* The number of strategies whose BFD pass has ended, with layouts or with
\* CannotFitAll
StrategiesFinished ==
    IF pc \in {"new", "optimize"} THEN 0
    ELSE IF pc \in {"bfd", "reduce", "reduce_loop", "select"} THEN si - 1
    ELSE NumStrategies

\* C28: the strategies whose BFD pass has ended have either all returned
\* layouts (each has an outcome) or all returned CannotFitAll (none has), at
\* every point of the strategy loop and after it.
C28_StrategiesAgreeOnFeasibility ==
    Len(hist.outcomes) \in {0, StrategiesFinished}

\* The fourth or a later strategy, of a request with an item that may rotate
\* and is normalised, is under way with a panel open after every strategy
\* before it has failed, and an item that fits no panel is still to come.
C28_Witness ==
    /\ pc = "bfd"
    /\ si >= 4
    /\ hist.outcomes = <<>>
    /\ Len(layouts) >= 1
    /\ \E k \in 1..Len(expanded_items) :
          expanded_items[k].can_rotate /\ expanded_items[k].width > expanded_items[k].height
    /\ \E k \in 1..Len(expanded_items) : ~FitsSomePanel(expanded_items[k])

-----------------------------------------------------------------------------
(* C29 *)

\* The layout after is the layout before with placements added at the end:
\* the same panel, and every earlier placement where it was, as it was.
Extends(after, before) ==
    /\ [after EXCEPT !.placements = <<>>] = [before EXCEPT !.placements = <<>>]
    /\ Len(after.placements) >= Len(before.placements)
    /\ SubSeq(after.placements, 1, Len(before.placements)) = before.placements

\* The layouts after are the layouts before without the panel t, the others in
\* their order, each extended.
WithoutPanel(after, before, t) ==
    /\ Len(after) = Len(before) - 1
    /\ \A k \in 1..Len(after) : Extends(after[k], before[IF k < t THEN k ELSE k + 1])

\* Every item id is placed as many times in after as in before.
SameIdsPlaced(after, before) ==
    \A id \in PlacedIds(after) \cup PlacedIds(before) :
        CountPlaced(after, id) = CountPlaced(before, id)

\* A step of the reduction pass: an iteration that loops on removes one panel
\* and extends the others; the step that ends the pass keeps the number of
\* panels and every placement of every panel.
ReductionStepKeepsItems ==
    pc \in {"reduce", "reduce_loop"} =>
        /\ SameIdsPlaced(layouts', layouts)
        /\ IF pc' = "reduce_loop"
           THEN \E t \in 1..Len(layouts) : WithoutPanel(layouts', layouts, t)
           ELSE /\ Len(layouts') = Len(layouts)
                /\ \A k \in 1..Len(layouts) :
                      layouts'[k].placements = layouts[k].placements

\* C29: every successful iteration of the reduction pass removes exactly one
\* panel, leaves the placements of the other panels as they were and places
\* every item id as often as before; the pass as a whole changes neither the
\* item ids placed nor how often each is, and never adds a panel.
C29_ReductionMovesItemsOfOnePanel == [][ReductionStepKeepsItems]_vars

\* The reduction pass is at an iteration that succeeds: of three or more
\* panels it removes one that holds two or more items.
C29_Witness ==
    /\ pc \in {"reduce", "reduce_loop"}
    /\ Len(layouts) >= 3
    /\ Len(layouts[min_used_idx(layouts)].placements) >= 2
    /\ IsSome(reduce_iteration(layouts, expanded_items))

-----------------------------------------------------------------------------
(* C30 *)

\* The layout after is the same panel as the layout before (panel_type_id,
\* width, height, trimming) and holds the placements of before, as they were
\* and where they were in the list, followed by any others.
Appends(after, before) ==
    /\ after.panel_type_id = before.panel_type_id
    /\ after.width = before.width
    /\ after.height = before.height
    /\ after.trimming = before.trimming
    /\ Len(after.placements) >= Len(before.placements)
    /\ SubSeq(after.placements, 1, Len(before.placements)) = before.placements

NumPlacements(lays) == Cardinality(Positions(lays))

\* The sum of the quantities of the request's item lines
RequiredQuantity == SumSeq([k \in 1..Len(request.items) |-> request.items[k].quantity], 1)

\* A step of try_add_optional_items, or the step of optimize after it, keeps
\* the panels, only appends placements, and appends as many as it appends ids
\* to items_used.
BackfillStepAppends ==
    pc \in {"backfill", "backfill_loop", "output"} =>
        /\ Len(layouts') = Len(layouts)
        /\ \A k \in 1..Len(layouts) : Appends(layouts'[k], layouts[k])
        /\ NumPlacements(layouts') - NumPlacements(layouts) = Len(items_used') - Len(items_used)
        /\ pc = "backfill" => items_used' = <<>> /\ NumPlacements(layouts) = RequiredQuantity
        /\ pc = "output" => result'.layouts = layouts' /\ result'.optional_items_used = items_used

\* C30: backfill only appends placements (every earlier placement stays on its
\* layout unchanged, every layout keeps its panel_type_id, width, height and
\* trimming), it appends one placement per id of optional_items_used, and a
\* result holds as many placements as the required quantities sum to plus the
\* length of optional_items_used.
C30_BackfillOnlyAppends ==
    /\ [][BackfillStepAppends]_vars
    /\ [](Succeeded =>
            NumPlacements(result.layouts)
                = RequiredQuantity + Len(result.optional_items_used))

\* A result for a request with an item line of quantity two or more, with two
\* or more optional items backfilled.
C30_Witness ==
    /\ Succeeded
    /\ Len(result.optional_items_used) >= 2
    /\ \E k \in 1..Len(request.items) : request.items[k].quantity >= 2

=============================================================================
